---- MODULE Spec2Model ----
(***************************************************************************)
(* Key rotation proxy: the key pool (KeyRotator), the per-request key      *)
(* context (RequestKeyContext), the rotation loop (OpenAIClient /          *)
(* GeminiClient makeRequest) and the dispatcher's delivery of the result   *)
(* (ProxyServer.handleRequest, sendResponse, sendError).                   *)
(*                                                                         *)
(* Node.js runs one callback at a time: an action of this model is the     *)
(* code that runs between two suspension points (await) of a request.      *)
(***************************************************************************)
EXTENDS Integers, Sequences, FiniteSets, TLC

\* ------------------------------------------------------------------ bounds
\* the key names, and the longest key list of a pool
KeyOrder == <<"K1", "K2", "K3">>
Keys == {KeyOrder[i] : i \in 1..Len(KeyOrder)}
MaxKeys == 3
\* the longest key list of a pool that two requests use at a time
MaxConcKeys == 2
\* the request slots of the rotation specification: one request at a time,
\* a finished request's slot taking the next request
Reqs == {1}

\* ------------------------------------------------------- values and nulls
NULL == "null"

DefaultRotationCode == 429
SyntheticStatus == 429
InternalErrorStatus == 500

UpstreamStatuses == {200, 429, 503}
\* headers and body of an upstream response
UpstreamPayloads == {<<"h1", "d1">>, <<"h2", "d2">>}
TransportErrors == {"e1", "e2"}
ExhaustedError == "All API keys exhausted without clear error"

\* customStatusCodes is null or a non-empty Set; null is written {}
NullCodes == {}
CustomCodeSets == {NullCodes, {503}}

NoResponse == [statusCode |-> 0, headers |-> "none", data |-> "none"]
UpstreamResponses ==
  {[statusCode |-> s, headers |-> p[1], data |-> p[2]] :
     s \in UpstreamStatuses, p \in UpstreamPayloads}
SyntheticResponse ==
  [statusCode |-> SyntheticStatus, headers |-> "json", data |-> "all keys rate limited"]
ErrorEnvelope(code) ==
  [statusCode |-> code, headers |-> "json", data |-> "error envelope"]

NoOutcome == [kind |-> "none", response |-> NoResponse, error |-> NULL]
RespOutcome(resp) == [kind |-> "response", response |-> resp, error |-> NULL]
ErrOutcome(e) == [kind |-> "error", response |-> NoResponse, error |-> e]

\* ---------------------------------------------------------------- helpers
Range(s) == {s[i] : i \in 1..Len(s)}

SeqsUpTo(S, n) == UNION {[1..m -> S] : m \in 0..n}

\* Array.prototype.indexOf, 1-based; 0 when absent
IndexOf(s, x) ==
  IF x \in Range(s) THEN CHOOSE i \in 1..Len(s) : s[i] = x /\ \A j \in 1..(i-1) : s[j] # x
  ELSE 0

\* Array.prototype.splice(i, 1), 1-based
RemoveAt(s, i) == [j \in 1..(Len(s)-1) |-> IF j < i THEN s[j] ELSE s[j+1]]

Swap(s, i, j) == [s EXCEPT ![i] = s[j], ![j] = s[i]]

Count(s, x) == Cardinality({i \in 1..Len(s) : s[i] = x})

\* the keys of s in order of first occurrence
RECURSIVE Dedup(_)
Dedup(s) ==
  IF s = <<>> THEN <<>>
  ELSE LET d == Dedup(SubSeq(s, 1, Len(s)-1))
       IN IF s[Len(s)] \in Range(d) THEN d ELSE Append(d, s[Len(s)])

Max(S) == CHOOSE x \in S : \A y \in S : y <= x

\* key lists up to renaming of the keys: a key is first used only after
\* the keys before it in KeyOrder
KeyNo(k) == IndexOf(KeyOrder, k)
Canonical(s) ==
  \A i \in 1..Len(s) : KeyNo(s[i]) <= 1 + Max({KeyNo(s[j]) : j \in 1..(i-1)} \cup {0})
Pools == {s \in SeqsUpTo(Keys, MaxKeys) : Canonical(s)}

IsPrefix(p, s) == Len(p) <= Len(s) /\ SubSeq(s, 1, Len(p)) = p

\* ------------------------------------------------------ RequestKeyContext
\* the Fisher-Yates loop from (1-based) position i down to 2; Math.random
\* makes every j of 1..i possible
RECURSIVE FisherYates(_, _)
FisherYates(s, i) ==
  IF i <= 1 THEN {s}
  ELSE UNION {FisherYates(Swap(s, i, j), i - 1) : j \in 1..i}

\* a shuffle that leaves the failed key where it fell
MoveNothing(keys, shuffled, h) == shuffled

MoveFailedKeyToEnd(keys, shuffled, h) ==
  IF h # NULL /\ h \in Range(keys)
  THEN LET failedKeyIndex == IndexOf(shuffled, h)
       IN IF failedKeyIndex # 0
          THEN Append(RemoveAt(shuffled, failedKeyIndex), h)
          ELSE shuffled
  ELSE shuffled

\* the attempt orders smartShuffle can return
smartShuffle(keys, h) ==
  {MoveFailedKeyToEnd(keys, shuffled, h) : shuffled \in FisherYates(keys, Len(keys))}

NoContext ==
  [apiKeys |-> <<>>, currentIndex |-> 0, triedKeys |-> {}, rateLimitedKeys |-> {},
   lastFailedKeyForThisRequest |-> NULL]

NewContext(order) ==
  [apiKeys |-> order, currentIndex |-> 0, triedKeys |-> {}, rateLimitedKeys |-> {},
   lastFailedKeyForThisRequest |-> NULL]

\* a scan that forgets to record the key it serves
RECURSIVE ScanForgetsTried(_, _)
ScanForgetsTried(c, attempts) ==
  IF attempts >= Len(c.apiKeys) THEN [key |-> NULL, ctx |-> c]
  ELSE LET key == c.apiKeys[c.currentIndex + 1]
       IN IF key \notin c.triedKeys
          THEN [key |-> key, ctx |-> c]
          ELSE ScanForgetsTried([c EXCEPT !.currentIndex = (@ + 1) % Len(c.apiKeys)],
                                attempts + 1)

\* the while loop of getNextKey
RECURSIVE ScanNextKey(_, _)
ScanNextKey(c, attempts) ==
  IF attempts >= Len(c.apiKeys) THEN [key |-> NULL, ctx |-> c]
  ELSE LET key == c.apiKeys[c.currentIndex + 1]
       IN IF key \notin c.triedKeys
          THEN [key |-> key, ctx |-> [c EXCEPT !.triedKeys = @ \cup {key}]]
          ELSE ScanNextKey([c EXCEPT !.currentIndex = (@ + 1) % Len(c.apiKeys)],
                           attempts + 1)

\* a getNextKey that serves the key under the cursor without the tried set
getNextKeyAtCursor(c) ==
  IF Len(c.apiKeys) = 0 THEN [key |-> NULL, ctx |-> c]
  ELSE [key |-> c.apiKeys[c.currentIndex + 1], ctx |-> c]

getNextKey(c) ==
  IF Cardinality(c.triedKeys) >= Len(c.apiKeys) THEN [key |-> NULL, ctx |-> c]
  ELSE ScanNextKey(c, 0)

\* a mark that moves the cursor two places
markSkipsAKey(c, key) ==
  [c EXCEPT !.rateLimitedKeys = @ \cup {key},
            !.lastFailedKeyForThisRequest = key,
            !.currentIndex = (@ + 2) % Len(c.apiKeys)]

markKeyAsRateLimited(c, key) ==
  [c EXCEPT !.rateLimitedKeys = @ \cup {key},
            !.lastFailedKeyForThisRequest = key,
            !.currentIndex = (@ + 1) % Len(c.apiKeys)]

\* a context that reports no failed key
getNoFailedKey(c) == NULL

getLastFailedKey(c) == c.lastFailedKeyForThisRequest

\* a check that is content with one rate limited key
anyKeyRateLimited(c) == Cardinality(c.rateLimitedKeys) > 0

allTriedKeysRateLimited(c) ==
  Cardinality(c.triedKeys) > 0
  /\ Cardinality(c.rateLimitedKeys) = Cardinality(c.triedKeys)

\* a check that wants more tried keys than the list has places
allKeysTriedStrict(c) == Cardinality(c.triedKeys) > Len(c.apiKeys)

allKeysTried(c) == Cardinality(c.triedKeys) >= Len(c.apiKeys)

\* ---------------------------------------------------------------- strings
\* A header or a status-code spec is a sequence of lexemes. The lexemes
\* "[STATUS_CODES:", "[ACCESS_KEY:" (either case), "Bearer", the client's
\* credential texts and the access-key texts stand for the characters they
\* spell; every other lexeme is one character.
TokStatusCodes == "[STATUS_CODES:"
TokAccessKey == "[ACCESS_KEY:"
TokClose == "]"
TokBearer == "Bearer"
Space == " "
\* the two halves of "[STATUS_CODES:", for a header in which other text
\* stands between them; side by side they are the directive name
TokStatusHead == "[STATUS_"
TokStatusTail == "CODES:"
\* a text that is undefined or null; the empty text is <<>>
Absent == <<"undefined">>
\* !text
Falsy(text) == text = Absent \/ text = <<>>

\* the /i flag of the two directive patterns
ToUpperCase(tok) ==
  CASE tok = "[status_codes:" -> TokStatusCodes
    [] tok = "[access_key:" -> TokAccessKey
    [] OTHER -> tok

DecimalDigits == <<"0", "1", "2", "3", "4", "5", "6", "7", "8", "9">>
HexDigits == DecimalDigits \o <<"a", "b", "c", "d", "e", "f">>
DigitValue(digits, ch) == IndexOf(digits, ch) - 1

\* the length of the longest prefix of s whose elements are in S
RECURSIVE PrefixLen(_, _)
PrefixLen(s, S) ==
  IF s = <<>> \/ s[1] \notin S THEN 0 ELSE 1 + PrefixLen(Tail(s), S)

\* the length of the longest suffix of s whose elements are in S
RECURSIVE SuffixLen(_, _)
SuffixLen(s, S) ==
  IF s = <<>> \/ s[Len(s)] \notin S THEN 0
  ELSE 1 + SuffixLen(SubSeq(s, 1, Len(s) - 1), S)

\* String.prototype.trim
Trim(s) ==
  LET t == SubSeq(s, PrefixLen(s, {Space}) + 1, Len(s))
  IN SubSeq(t, 1, Len(t) - SuffixLen(t, {Space}))

Includes(s, ch) == ch \in Range(s)

EndsWith(s, suffix) ==
  Len(suffix) <= Len(s) /\ SubSeq(s, Len(s) - Len(suffix) + 1, Len(s)) = suffix

\* String.prototype.slice(0, -n)
SliceOffEnd(s, n) == SubSeq(s, 1, Len(s) - n)

\* String.prototype.split(sep) for a one-character separator
RECURSIVE Split(_, _)
Split(s, sep) ==
  IF ~Includes(s, sep) THEN <<s>>
  ELSE LET i == IndexOf(s, sep)
       IN <<SubSeq(s, 1, i - 1)>> \o Split(SubSeq(s, i + 1, Len(s)), sep)

\* the value of the digit string s in the given radix
RECURSIVE DigitsValue(_, _)
DigitsValue(s, digits) ==
  IF s = <<>> THEN 0
  ELSE DigitsValue(SubSeq(s, 1, Len(s) - 1), digits) * Len(digits)
       + DigitValue(digits, s[Len(s)])

NaN == [nan |-> TRUE, value |-> 0]
Number(n) == [nan |-> FALSE, value |-> n]
isNaN(x) == x.nan

\* parseInt(s) without a radix: leading whitespace is skipped, a sign is
\* read, "0x" selects radix 16, the longest run of digits is the value and
\* whatever follows it is ignored; NaN when there is no digit
parseInt(s) ==
  LET t == SubSeq(s, PrefixLen(s, {Space}) + 1, Len(s))
      signed == t # <<>> /\ t[1] \in {"+", "-"}
      sign == IF signed /\ t[1] = "-" THEN -1 ELSE 1
      u == IF signed THEN Tail(t) ELSE t
      hex == Len(u) >= 2 /\ u[1] = "0" /\ u[2] \in {"x", "X"}
      v == IF hex THEN SubSeq(u, 3, Len(u)) ELSE u
      digits == IF hex THEN HexDigits ELSE DecimalDigits
      n == PrefixLen(v, Range(digits))
  IN IF n = 0 THEN NaN ELSE Number(sign * DigitsValue(SubSeq(v, 1, n), digits))

\* ------------------------------------------------------- directive parser
\* the upper limit of the open-ended terms
MaxStatusCode == 599

\* positions i of s where the pattern \[NAME:([^\]]+)\] matches: the
\* directive lexeme, at least one lexeme that is not "]", then "]"
ClosePos(s, i) == i + 1 + PrefixLen(SubSeq(s, i + 1, Len(s)), Range(s) \ {TokClose})
MatchesAt(s, i, name) ==
  /\ ToUpperCase(s[i]) = name
  /\ ClosePos(s, i) <= Len(s)
  /\ ClosePos(s, i) >= i + 2
MatchPositions(s, name) == {i \in 1..Len(s) : MatchesAt(s, i, name)}
Min(S) == CHOOSE x \in S : \A y \in S : x <= y

\* String.prototype.match without the g flag: the capture group of the
\* leftmost match, Absent when there is none (or no header to match)
MatchGroup(s, name) ==
  IF s = Absent \/ MatchPositions(s, name) = {} THEN Absent
  ELSE LET i == Min(MatchPositions(s, name))
       IN SubSeq(s, i + 1, ClosePos(s, i) - 1)

\* the lexemes of the text s spells: halves of a directive name that have
\* come to stand side by side are that name
RECURSIVE Lexemes(_)
Lexemes(s) ==
  IF Len(s) < 2 THEN s
  ELSE IF s[1] = TokStatusHead /\ s[2] = TokStatusTail
  THEN <<TokStatusCodes>> \o Lexemes(SubSeq(s, 3, Len(s)))
  ELSE <<s[1]>> \o Lexemes(Tail(s))

\* the text left when every match is cut out, left to right
RECURSIVE CutMatches(_, _)
CutMatches(s, name) ==
  IF MatchPositions(s, name) = {} THEN s
  ELSE LET i == Min(MatchPositions(s, name))
       IN SubSeq(s, 1, i - 1)
          \o CutMatches(SubSeq(s, ClosePos(s, i) + 1, Len(s)), name)

\* String.prototype.replace(/.../gi, ''): the string that is left
RemoveMatches(s, name) == Lexemes(CutMatches(s, name))

\* an open-ended term that stops one code too late
OpenEndedTo600(from) == from..(MaxStatusCode + 1)

\* for (let i = from; i <= 599; i++) codes.add(i)
OpenEnded(from) == from..MaxStatusCode

\* the codes one part of the spec adds
PartCodes(part) ==
  IF Includes(part, "-")
  THEN LET bounds == Split(part, "-")
           start == parseInt(Trim(bounds[1]))
           end == parseInt(Trim(bounds[2]))
       IN IF ~isNaN(start) /\ ~isNaN(end) THEN start.value..end.value ELSE {}
  ELSE IF EndsWith(part, <<"=", "+">>)
  THEN LET base == parseInt(Trim(SliceOffEnd(part, 2)))
       IN IF ~isNaN(base) THEN OpenEnded(base.value) ELSE {}
  ELSE IF EndsWith(part, <<"+">>)
  THEN LET base == parseInt(Trim(SliceOffEnd(part, 1)))
       IN IF ~isNaN(base) THEN OpenEnded(base.value + 1) ELSE {}
  ELSE LET code == parseInt(Trim(part))
       IN IF ~isNaN(code) THEN {code.value} ELSE {}

\* a parser that reads the first term only
SpecPartsFirstOnly(statusCodeStr) == <<Trim(Split(statusCodeStr, ",")[1])>>

\* statusCodeStr.split(',').map(s => s.trim())
SpecParts(statusCodeStr) ==
  LET raw == Split(statusCodeStr, ",") IN [i \in 1..Len(raw) |-> Trim(raw[i])]

\* the Set the header's STATUS_CODES directive gives, NullCodes for null
parseStatusCodesFromAuth(authHeader) ==
  LET statusCodeStr == MatchGroup(authHeader, TokStatusCodes)
  IN IF statusCodeStr = Absent THEN NullCodes
     ELSE LET parts == SpecParts(statusCodeStr)
          IN UNION {PartCodes(parts[i]) : i \in 1..Len(parts)}

\* the trimmed value of the leftmost ACCESS_KEY directive, Absent for null
parseAccessKeyFromAuth(authHeader) ==
  LET value == MatchGroup(authHeader, TokAccessKey)
  IN IF value = Absent THEN Absent ELSE Trim(value)

\* the header without its directives, Absent (null) when only "Bearer" is left
cleanAuthHeader(authHeader) ==
  IF Falsy(authHeader) THEN authHeader
  ELSE LET cleaned == Trim(RemoveMatches(RemoveMatches(authHeader, TokStatusCodes),
                                         TokAccessKey))
       IN IF cleaned = <<TokBearer>> \/ cleaned = <<TokBearer, Space>> THEN Absent
          ELSE cleaned

\* ------------------------------------------------------------------ routes
\* config.providers: the configured provider names are lower case
ProviderNames == {"openai", "gemini"}
ApiTypes == {"openai", "gemini"}
NoProvider == [apiType |-> NULL, accessKey |-> Absent, keys |-> <<>>, baseUrl |-> NULL]

\* String.prototype.toLowerCase on the lexemes of a path
ToLowerCase(tok) ==
  CASE tok = "OpenAI" -> "openai"
    [] tok = "Gemini" -> "gemini"
    [] OTHER -> tok

\* config.getProvider(providerName)
getProvider(config, providerName) ==
  IF providerName \in DOMAIN config THEN config[providerName] ELSE NoProvider

\* Array.prototype.filter(part => part.length > 0)
RECURSIVE FilterNonEmpty(_)
FilterNonEmpty(parts) ==
  IF parts = <<>> THEN <<>>
  ELSE IF Head(parts) = <<>> THEN FilterNonEmpty(Tail(parts))
  ELSE <<Head(parts)>> \o FilterNonEmpty(Tail(parts))

\* Array.prototype.join('/')
RECURSIVE Join(_)
Join(parts) ==
  IF parts = <<>> THEN <<>>
  ELSE IF Len(parts) = 1 THEN parts[1]
  ELSE parts[1] \o <<"/">> \o Join(Tail(parts))

NoRoute ==
  [providerName |-> NULL, apiType |-> NULL, path |-> <<>>, provider |-> NoProvider,
   legacy |-> FALSE]

\* pathParts.slice(1).join('/')
RestOfPath(pathParts) == Join(Tail(pathParts))

\* a lookup of the segment as the client wrote it
LookupNameAsWritten(segment) == segment

\* pathParts[0].toLowerCase()
LookupName(segment) == ToLowerCase(segment)

\* parseRoute(url) under the configuration config, for a url whose
\* pathname and search are given; NoRoute for null
parseRoute(config, url) ==
  LET pathParts == FilterNonEmpty(Split(url.pathname, "/"))
      providerName == IF pathParts # <<>> /\ Len(pathParts[1]) = 1
                      THEN LookupName(pathParts[1][1]) ELSE NULL
      provider == getProvider(config, providerName)
  IN IF pathParts # <<>> /\ provider # NoProvider
     THEN [providerName |-> providerName, apiType |-> provider.apiType,
           path |-> <<"/">> \o RestOfPath(pathParts) \o url.search,
           provider |-> provider, legacy |-> FALSE]
     ELSE IF IsPrefix(<<"/", "gemini", "/">>, url.pathname)
     THEN [providerName |-> "gemini", apiType |-> "gemini",
           path |-> SubSeq(url.pathname, 3, Len(url.pathname)) \o url.search,
           provider |-> NoProvider, legacy |-> TRUE]
     ELSE IF IsPrefix(<<"/", "openai", "/">>, url.pathname)
     THEN [providerName |-> "openai", apiType |-> "openai",
           path |-> SubSeq(url.pathname, 3, Len(url.pathname)) \o url.search,
           provider |-> NoProvider, legacy |-> TRUE]
     ELSE NoRoute

\* an access check that lets a request without directive pass
validateAccessKeyLax(config, provider, authHeader) ==
  LET providerConfig == getProvider(config, provider)
      providedAccessKey == parseAccessKeyFromAuth(authHeader)
  IN IF providerConfig = NoProvider \/ Falsy(providerConfig.accessKey) THEN TRUE
     ELSE IF Falsy(providedAccessKey) THEN TRUE
     ELSE providedAccessKey = providerConfig.accessKey

\* validateAccessKey(provider, authHeader)
validateAccessKey(config, provider, authHeader) ==
  LET providerConfig == getProvider(config, provider)
      providedAccessKey == parseAccessKeyFromAuth(authHeader)
  IN IF providerConfig = NoProvider \/ Falsy(providerConfig.accessKey) THEN TRUE
     ELSE IF Falsy(providedAccessKey) THEN FALSE
     ELSE providedAccessKey = providerConfig.accessKey

\* ------------------------------------------------------------------ state
VARIABLES
  apiKeys,              \* KeyRotator.apiKeys of the pool
  lastFailedKey,        \* KeyRotator.lastFailedKey
  pc,                   \* where each request is
  ctx,                  \* requestContext of each request
  rotationStatusCodes,  \* rotationStatusCodes of each request
  lastResponse,         \* lastResponse of each request
  lastError,            \* lastError of each request
  apiKey,               \* key of the attempt a request awaits
  result,               \* what makeRequest returned or threw
  clientOut,            \* responses written to the client (writeHead + end)
  served,               \* history: keys getNextKey returned to the request
  inFlight,             \* history: upstream attempts started and not settled
  lastOutcome,          \* history: how the latest attempt settled
  rotated,              \* history: keys whose attempt returned a rotation code
  startHint,            \* history: the pool's lastFailedKey when the context was made
  providers,            \* Config.providers: provider name -> configuration
  geminiClient,         \* ProxyServer.geminiClient, the legacy client or null
  openaiClient,         \* ProxyServer.openaiClient, the legacy client or null
  providerClients,      \* ProxyServer.providerClients: name -> API type of the client
  req,                  \* the url and credential headers of each request
  routeInfo,            \* routeInfo of each request
  customStatusCodes,    \* customStatusCodes of each request
  headers,              \* the credential headers handleRequest forwards
  bypassSent,           \* history: client keys sent upstream without rotation
  client,               \* the client handleRequest got for each request
  orphaned,             \* history: the request's client was dropped by a reload
  connected,            \* the client's connection of each request is open
  logBuffer,            \* ProxyServer.logBuffer
  started,              \* history: number of requests that have been logged
  adminSessionToken,    \* ProxyServer.adminSessionToken
  failedLoginAttempts,  \* ProxyServer.failedLoginAttempts
  loginBlockedUntil,    \* ProxyServer.loginBlockedUntil
  now,                  \* Date.now(), in units of the block time's half
  adminOp               \* history: the protected handler run for each request

\* the state of the admin panel
adminVars == <<adminSessionToken, failedLoginAttempts, loginBlockedUntil, now, adminOp>>

\* the state of the dispatcher
serverVars == <<providers, geminiClient, openaiClient, providerClients, req,
                routeInfo, customStatusCodes, headers, bypassSent, client, orphaned,
                logBuffer, started, adminVars>>

vars == <<apiKeys, lastFailedKey, pc, ctx, rotationStatusCodes, lastResponse,
          lastError, apiKey, result, clientOut, served, inFlight, lastOutcome,
          rotated, startHint, providers, geminiClient, openaiClient,
          providerClients, req, routeInfo, customStatusCodes, headers, bypassSent,
          client, orphaned, connected, logBuffer, started, adminVars>>

\* loginBlockedUntil when no block is set: null, which is falsy as 0 is
NoBlock == 0

\* the ProxyServer constructor: nobody is logged in, no login has failed
InitAdmin ==
  /\ adminSessionToken = NULL
  /\ failedLoginAttempts = 0
  /\ loginBlockedUntil = NoBlock
  /\ now = 0
  /\ adminOp = [r \in {1, 2} |-> NULL]

NoResult == [kind |-> "none", response |-> NoResponse, error |-> NULL]
Returned(resp) == [kind |-> "response", response |-> resp, error |-> NULL]
Raised(e) == [kind |-> "error", response |-> NoResponse, error |-> e]

\* a request without url and headers, and what handleRequest holds before
\* a request has arrived
NoUrl == [pathname |-> <<>>, search |-> <<>>]
NoRequest == [url |-> NoUrl, authorization |-> Absent, xGoogApiKey |-> Absent]
NoHeaders == [authorization |-> Absent, xGoogApiKey |-> Absent]

\* getProviderClient's null; a client is known by the provider type, the
\* keys its KeyRotator was built over and the base url it was built with
NoClient == [apiType |-> NULL, keys |-> <<>>, baseUrl |-> NULL]

\* new OpenAIClient / new GeminiClient(new KeyRotator(provider.keys,
\* provider.apiType), provider.baseUrl)
NewClient(provider) ==
  [apiType |-> provider.apiType, keys |-> provider.keys, baseUrl |-> provider.baseUrl]

\* no request has arrived yet
InitRequests ==
  /\ client = [r \in Reqs |-> NoClient]
  /\ orphaned = [r \in Reqs |-> FALSE]
  /\ connected = [r \in Reqs |-> TRUE]
  /\ logBuffer = <<>>
  /\ started = 0
  /\ InitAdmin
  /\ req = [r \in Reqs |-> NoRequest]
  /\ routeInfo = [r \in Reqs |-> NoRoute]
  /\ customStatusCodes = [r \in Reqs |-> NullCodes]
  /\ headers = [r \in Reqs |-> NoHeaders]
  /\ bypassSent = [r \in Reqs |-> <<>>]

\* a client over a key pool on its own, as `new OpenAIClient(new
\* KeyRotator(keys), baseUrl)` gives it: no provider is configured
Init ==
  /\ providers = <<>>
  /\ geminiClient = NoClient
  /\ openaiClient = NoClient
  /\ providerClients = <<>>
  /\ InitRequests
  /\ apiKeys \in Pools
  /\ lastFailedKey = NULL
  /\ pc = [r \in Reqs |-> "idle"]
  /\ ctx = [r \in Reqs |-> NoContext]
  /\ rotationStatusCodes = [r \in Reqs |-> {}]
  /\ lastResponse = [r \in Reqs |-> NoResponse]
  /\ lastError = [r \in Reqs |-> NULL]
  /\ apiKey = [r \in Reqs |-> NULL]
  /\ result = [r \in Reqs |-> NoResult]
  /\ clientOut = [r \in Reqs |-> <<>>]
  /\ served = [r \in Reqs |-> <<>>]
  /\ inFlight = [r \in Reqs |-> 0]
  /\ lastOutcome = [r \in Reqs |-> NoOutcome]
  /\ rotated = [r \in Reqs |-> <<>>]
  /\ startHint = [r \in Reqs |-> NULL]

\* ------------------------------------------------------------- KeyRotator
\* a KeyRotator whose contexts start from what the contexts in use have tried
createSharingContext(order) ==
  [NewContext(order) EXCEPT
     !.triedKeys = UNION {ctx[q].triedKeys : q \in DOMAIN ctx}]

\* new RequestKeyContext(this.apiKeys, this.apiType, this.lastFailedKey),
\* which copies the list it is given
createRequestContext(order) == NewContext(order)

\* an update that ignores null
updateOnlyNonNull(failedKey) == IF failedKey # NULL THEN failedKey ELSE lastFailedKey

\* the value updateLastFailedKey stores in the pool
updateLastFailedKey(failedKey) == failedKey

\* ------------------------------------------------------------ makeRequest
\* customStatusCodes || new Set([429])
RotationCodesFor(codes) ==
  IF codes = NullCodes THEN {DefaultRotationCode} ELSE codes

\* a loop that rotates on every response
TriggersRotationAlways(codes, response) == TRUE

\* rotationStatusCodes.has(response.statusCode)
TriggersRotation(codes, response) == response.statusCode \in codes

\* a loop that keeps the first rotation response
KeepFirstResponse(previous, response) ==
  IF previous # NoResponse THEN previous ELSE response

\* lastResponse = response, on a rotation response
KeepResponse(previous, response) == response

\* a loop that keeps the first transport error
KeepFirstError(previous, error) ==
  IF previous # NULL THEN previous ELSE error

\* lastError = error, on a transport error
KeepError(previous, error) == error

\* an exhaustion that answers with its own response when all keys were
\* rate limited
ExhaustionSynthesized(c, lr, le) ==
  IF allTriedKeysRateLimited(c) THEN Returned(SyntheticResponse)
  ELSE IF le # NULL THEN Raised(le) ELSE Raised(ExhaustedError)

\* what makeRequest does once getNextKey has returned null: the value it
\* returns or throws
ExhaustionResult(c, lr, le) ==
  IF allTriedKeysRateLimited(c)
  THEN Returned(IF lr # NoResponse THEN lr ELSE SyntheticResponse)
  ELSE IF le # NULL THEN Raised(le) ELSE Raised(ExhaustedError)

\* a loop whose updateLastFailedKey writes the pool in use at the time,
\* whichever client the request holds
RotationLoopOnPoolInUse(r, c, lr, le, servedSoFar, flying, hint, dropped) ==
  LET next == getNextKey(c) IN
  /\ ctx' = [ctx EXCEPT ![r] = next.ctx]
  /\ lastResponse' = [lastResponse EXCEPT ![r] = lr]
  /\ lastError' = [lastError EXCEPT ![r] = le]
  /\ IF next.key # NULL
     THEN /\ apiKey' = [apiKey EXCEPT ![r] = next.key]
          /\ served' = [served EXCEPT ![r] = Append(servedSoFar, next.key)]
          /\ inFlight' = [inFlight EXCEPT ![r] = flying + 1]
          /\ pc' = [pc EXCEPT ![r] = "awaiting"]
          /\ result' = [result EXCEPT ![r] = NoResult]
          /\ lastFailedKey' = hint
     ELSE LET res == ExhaustionResult(next.ctx, lr, le) IN
          /\ lastFailedKey' = updateLastFailedKey(getLastFailedKey(next.ctx))
          /\ result' = [result EXCEPT ![r] = res]
          /\ pc' = [pc EXCEPT ![r] = IF res.kind = "response" THEN "returned" ELSE "raised"]
          /\ apiKey' = [apiKey EXCEPT ![r] = NULL]
          /\ served' = [served EXCEPT ![r] = servedSoFar]
          /\ inFlight' = [inFlight EXCEPT ![r] = flying]

\* the loop head, run with context c, lastResponse lr, lastError le:
\* getNextKey, then either sendRequest (and suspend) or the code after the
\* loop. servedSoFar and flying are the histories before this step, hint is
\* lastFailedKey of the pool in use; dropped says that the request's client
\* is no longer the one in use, so that its updateLastFailedKey writes the
\* KeyRotator of a client nothing refers to any more.
RotationLoop(r, c, lr, le, servedSoFar, flying, hint, dropped) ==
  LET next == getNextKey(c) IN
  /\ ctx' = [ctx EXCEPT ![r] = next.ctx]
  /\ lastResponse' = [lastResponse EXCEPT ![r] = lr]
  /\ lastError' = [lastError EXCEPT ![r] = le]
  /\ IF next.key # NULL
     THEN /\ apiKey' = [apiKey EXCEPT ![r] = next.key]
          /\ served' = [served EXCEPT ![r] = Append(servedSoFar, next.key)]
          /\ inFlight' = [inFlight EXCEPT ![r] = flying + 1]
          /\ pc' = [pc EXCEPT ![r] = "awaiting"]
          /\ result' = [result EXCEPT ![r] = NoResult]
          /\ lastFailedKey' = hint
     ELSE LET res == ExhaustionResult(next.ctx, lr, le) IN
          /\ lastFailedKey' = IF dropped THEN hint
                              ELSE updateLastFailedKey(getLastFailedKey(next.ctx))
          /\ result' = [result EXCEPT ![r] = res]
          /\ pc' = [pc EXCEPT ![r] = IF res.kind = "response" THEN "returned" ELSE "raised"]
          /\ apiKey' = [apiKey EXCEPT ![r] = NULL]
          /\ served' = [served EXCEPT ![r] = servedSoFar]
          /\ inFlight' = [inFlight EXCEPT ![r] = flying]

\* makeRequest from its first line up to its first upstream attempt, on
\* the KeyRotator whose fields are keys and hint
RotationEntryOn(r, codes, keys, hint) ==
  /\ pc[r] \in {"idle", "done"}
  /\ rotationStatusCodes' =
       [rotationStatusCodes EXCEPT ![r] = RotationCodesFor(codes)]
  /\ startHint' = [startHint EXCEPT ![r] = hint]
  /\ clientOut' = [clientOut EXCEPT ![r] = <<>>]
  /\ lastOutcome' = [lastOutcome EXCEPT ![r] = NoOutcome]
  /\ rotated' = [rotated EXCEPT ![r] = <<>>]
  /\ connected' = [connected EXCEPT ![r] = TRUE]
  /\ \E order \in smartShuffle(keys, hint) :
       RotationLoop(r, createRequestContext(order), NoResponse, NULL, <<>>, 0,
                    hint, FALSE)
  /\ apiKeys' = keys

\* makeRequest on the pool in use
RotationEntry(r, codes) == RotationEntryOn(r, codes, apiKeys, lastFailedKey)

\* a request arrives at makeRequest and runs up to its first upstream attempt
MakeRequest(r, codes) ==
  /\ RotationEntry(r, codes)
  /\ UNCHANGED serverVars

\* the awaited attempt resolves with an upstream response
AttemptResponds(r, response) ==
  /\ pc[r] = "awaiting"
  /\ lastOutcome' = [lastOutcome EXCEPT ![r] = RespOutcome(response)]
  /\ IF TriggersRotation(rotationStatusCodes[r], response)
     THEN /\ RotationLoop(r, markKeyAsRateLimited(ctx[r], apiKey[r]),
                          KeepResponse(lastResponse[r], response), lastError[r],
                          served[r], inFlight[r] - 1, lastFailedKey, orphaned[r])
          /\ rotated' = [rotated EXCEPT ![r] = Append(@, apiKey[r])]
     ELSE /\ result' = [result EXCEPT ![r] = Returned(response)]
          /\ pc' = [pc EXCEPT ![r] = "returned"]
          /\ apiKey' = [apiKey EXCEPT ![r] = NULL]
          /\ inFlight' = [inFlight EXCEPT ![r] = @ - 1]
          /\ UNCHANGED <<lastFailedKey, ctx, lastResponse, lastError, served, rotated>>
  /\ UNCHANGED <<apiKeys, rotationStatusCodes, clientOut, startHint>>
  /\ UNCHANGED <<serverVars, connected>>

\* a catch block that marks the key of the failed attempt
MarkedAfterError(c, key) == markKeyAsRateLimited(c, key)

\* the context after the catch block, which calls no method of it
ContextAfterError(c, key) == c

\* the awaited attempt rejects with a transport error
AttemptFails(r, error) ==
  /\ pc[r] = "awaiting"
  /\ lastOutcome' = [lastOutcome EXCEPT ![r] = ErrOutcome(error)]
  /\ RotationLoop(r, ContextAfterError(ctx[r], apiKey[r]), lastResponse[r],
                  KeepError(lastError[r], error),
                  served[r], inFlight[r] - 1, lastFailedKey, orphaned[r])
  /\ UNCHANGED <<apiKeys, rotationStatusCodes, clientOut, rotated, startHint>>
  /\ UNCHANGED <<serverVars, connected>>

\* ---------------------------------------------------------- handleRequest
\* a sendResponse that answers upstream errors with its own envelope
sendResponseMasked(response) ==
  IF response.statusCode >= 400 THEN ErrorEnvelope(response.statusCode)
  ELSE [statusCode |-> response.statusCode, headers |-> response.headers,
        data |-> response.data]

\* what sendResponse writes for the response makeRequest returned
sendResponse(response) ==
  [statusCode |-> response.statusCode, headers |-> response.headers,
   data |-> response.data]

\* what sendError writes
sendError(statusCode) == ErrorEnvelope(statusCode)

\* makeRequest returned: the response is logged and written to the client
DeliverResponse(r) ==
  /\ pc[r] = "returned"
  /\ clientOut' = [clientOut EXCEPT ![r] = Append(@, sendResponse(result[r].response))]
  /\ pc' = [pc EXCEPT ![r] = "done"]
  /\ UNCHANGED <<apiKeys, lastFailedKey, ctx, rotationStatusCodes, lastResponse,
                 lastError, apiKey, result, served, inFlight, lastOutcome, rotated,
                 startHint>>
  /\ UNCHANGED <<serverVars, connected>>

\* makeRequest threw: the catch block answers 500
DeliverError(r) ==
  /\ pc[r] = "raised"
  /\ clientOut' = [clientOut EXCEPT ![r] = Append(@, sendError(InternalErrorStatus))]
  /\ pc' = [pc EXCEPT ![r] = "done"]
  /\ UNCHANGED <<apiKeys, lastFailedKey, ctx, rotationStatusCodes, lastResponse,
                 lastError, apiKey, result, served, inFlight, lastOutcome, rotated,
                 startHint>>
  /\ UNCHANGED <<serverVars, connected>>

Next ==
  \/ \E r \in Reqs, codes \in CustomCodeSets : MakeRequest(r, codes)
  \/ \E r \in Reqs, response \in UpstreamResponses : AttemptResponds(r, response)
  \/ \E r \in Reqs, error \in TransportErrors : AttemptFails(r, error)
  \/ \E r \in Reqs : DeliverResponse(r)
  \/ \E r \in Reqs : DeliverError(r)

Spec == Init /\ [][Next]_vars

\* the awaited attempt of r settles, one way or the other
AttemptCompletes(r) ==
  \/ \E response \in UpstreamResponses : AttemptResponds(r, response)
  \/ \E error \in TransportErrors : AttemptFails(r, error)

\* Spec under the condition that every upstream attempt settles: the
\* promise of sendRequest resolves on 'end' and rejects on 'error'
SpecLive == Spec /\ \A r \in Reqs : WF_vars(AttemptCompletes(r))

\* ------------------------------------- two requests on one pool at a time
\* Two handlers run makeRequest on the same client, interleaved at their
\* awaits.
ConcReqs == {1, 2}
ConcStatuses == {200, 429}
ConcResponses ==
  {[statusCode |-> s, headers |-> "h1", data |-> "d1"] : s \in ConcStatuses}
ConcErrors == {"e1"}

InitConc ==
  /\ providers = <<>>
  /\ geminiClient = NoClient
  /\ openaiClient = NoClient
  /\ providerClients = <<>>
  /\ req = [r \in ConcReqs |-> NoRequest]
  /\ routeInfo = [r \in ConcReqs |-> NoRoute]
  /\ customStatusCodes = [r \in ConcReqs |-> NullCodes]
  /\ headers = [r \in ConcReqs |-> NoHeaders]
  /\ bypassSent = [r \in ConcReqs |-> <<>>]
  /\ client = [r \in ConcReqs |-> NoClient]
  /\ orphaned = [r \in ConcReqs |-> FALSE]
  /\ connected = [r \in ConcReqs |-> TRUE]
  /\ logBuffer = <<>>
  /\ started = 0
  /\ InitAdmin
  /\ apiKeys \in {s \in Pools : Len(s) <= MaxConcKeys}
  /\ lastFailedKey = NULL
  /\ pc = [r \in ConcReqs |-> "idle"]
  /\ ctx = [r \in ConcReqs |-> NoContext]
  /\ rotationStatusCodes = [r \in ConcReqs |-> {}]
  /\ lastResponse = [r \in ConcReqs |-> NoResponse]
  /\ lastError = [r \in ConcReqs |-> NULL]
  /\ apiKey = [r \in ConcReqs |-> NULL]
  /\ result = [r \in ConcReqs |-> NoResult]
  /\ clientOut = [r \in ConcReqs |-> <<>>]
  /\ served = [r \in ConcReqs |-> <<>>]
  /\ inFlight = [r \in ConcReqs |-> 0]
  /\ lastOutcome = [r \in ConcReqs |-> NoOutcome]
  /\ rotated = [r \in ConcReqs |-> <<>>]
  /\ startHint = [r \in ConcReqs |-> NULL]

NextConc ==
  \/ \E r \in ConcReqs : MakeRequest(r, NullCodes)
  \/ \E r \in ConcReqs, response \in ConcResponses : AttemptResponds(r, response)
  \/ \E r \in ConcReqs, error \in ConcErrors : AttemptFails(r, error)
  \/ \E r \in ConcReqs : DeliverResponse(r)
  \/ \E r \in ConcReqs : DeliverError(r)

SpecConc == InitConc /\ [][NextConc]_vars

\* ------------------------------------------- the client goes away
\* The client closes its connection while makeRequest awaits an upstream
\* attempt. Neither handleRequest nor readRequestBody nor the clients
\* register a listener for 'close' or 'aborted' on req, res or the socket,
\* and sendRequest is given no abort signal: nothing of the server's state
\* changes, the loop goes on as for a connected client.
ClientDisconnects(r) ==
  /\ pc[r] = "awaiting"
  /\ connected[r]
  /\ connected' = [connected EXCEPT ![r] = FALSE]
  /\ UNCHANGED <<apiKeys, lastFailedKey, pc, ctx, rotationStatusCodes, lastResponse,
                 lastError, apiKey, result, clientOut, served, inFlight, lastOutcome,
                 rotated, startHint>>
  /\ UNCHANGED serverVars

NextDisconnect ==
  \/ Next
  \/ \E r \in Reqs : ClientDisconnects(r)

SpecDisconnect == Init /\ [][NextDisconnect]_vars

\* --------------------------------------- the key context, call by call
\* KeyRotator and RequestKeyContext driven through their methods in any
\* order, as their callers and tests may: pc is "open" once a context exists,
\* apiKey holds what the latest getNextKey returned, served the keys returned;
\* the histories of the rotation loop (rotated, lastOutcome, inFlight) rest

CtxUpdateLastFailedKey(failedKey) ==
  /\ lastFailedKey' = updateLastFailedKey(failedKey)
  /\ UNCHANGED <<apiKeys, pc, ctx, rotationStatusCodes, lastResponse, lastError,
                 apiKey, result, clientOut, served, inFlight, lastOutcome, rotated,
                 startHint>>
  /\ UNCHANGED <<serverVars, connected>>

CtxCreate(r) ==
  /\ \E order \in smartShuffle(apiKeys, lastFailedKey) :
       ctx' = [ctx EXCEPT ![r] = createRequestContext(order)]
  /\ pc' = [pc EXCEPT ![r] = "open"]
  /\ apiKey' = [apiKey EXCEPT ![r] = NULL]
  /\ served' = [served EXCEPT ![r] = <<>>]
  /\ rotated' = [rotated EXCEPT ![r] = <<>>]
  /\ startHint' = [startHint EXCEPT ![r] = lastFailedKey]
  /\ UNCHANGED <<apiKeys, lastFailedKey, rotationStatusCodes, lastResponse,
                 lastError, result, clientOut, inFlight, lastOutcome>>
  /\ UNCHANGED <<serverVars, connected>>

CtxGetNextKey(r) ==
  /\ pc[r] = "open"
  /\ LET next == getNextKey(ctx[r]) IN
       /\ ctx' = [ctx EXCEPT ![r] = next.ctx]
       /\ apiKey' = [apiKey EXCEPT ![r] = next.key]
       /\ served' = [served EXCEPT ![r] = IF next.key # NULL THEN Append(@, next.key) ELSE @]
  /\ UNCHANGED <<apiKeys, lastFailedKey, pc, rotationStatusCodes, lastResponse,
                 lastError, result, clientOut, inFlight, lastOutcome, rotated,
                 startHint>>
  /\ UNCHANGED <<serverVars, connected>>

\* markKeyAsRateLimited is called with a key getNextKey has returned
CtxMark(r, key) ==
  /\ pc[r] = "open"
  /\ key \in ctx[r].triedKeys
  /\ ctx' = [ctx EXCEPT ![r] = markKeyAsRateLimited(@, key)]
  /\ UNCHANGED <<apiKeys, lastFailedKey, pc, rotationStatusCodes, lastResponse,
                 lastError, apiKey, result, clientOut, served, inFlight, lastOutcome,
                 rotated, startHint>>
  /\ UNCHANGED <<serverVars, connected>>

NextCtx ==
  \/ \E failedKey \in Keys \cup {NULL} : CtxUpdateLastFailedKey(failedKey)
  \/ \E r \in Reqs : CtxCreate(r)
  \/ \E r \in Reqs : CtxGetNextKey(r)
  \/ \E r \in Reqs, key \in Keys : CtxMark(r, key)

SpecCtx == Init /\ [][NextCtx]_vars

\* ------------------------------------------------------- the request log
\* handleRequest's calls of logApiRequest for requests that are proxied,
\* one after the other: one entry when the request is accepted (line 167,
\* status null) and one when makeRequest has returned or thrown (lines 211
\* and 222). A request is known by its number, which stands for requestId.
LogLimit == 100
MaxLogRequests == 55

\* this.logBuffer.push(logEntry); if (length > 100) this.logBuffer.shift()
logApiRequest(buffer, logEntry) ==
  IF Len(buffer) + 1 > LogLimit THEN Tail(Append(buffer, logEntry))
  ELSE Append(buffer, logEntry)

LogEntry(requestId, final) == [requestId |-> requestId, final |-> final]

\* "Log the initial request"
LogInitialRequest(r) ==
  /\ pc[r] = "idle"
  /\ started < MaxLogRequests
  /\ started' = started + 1
  /\ logBuffer' = logApiRequest(logBuffer, LogEntry(started + 1, FALSE))
  /\ pc' = [pc EXCEPT ![r] = "logged"]
  /\ UNCHANGED <<apiKeys, lastFailedKey, ctx, rotationStatusCodes, lastResponse,
                 lastError, apiKey, result, clientOut, served, inFlight, lastOutcome,
                 rotated, startHint, connected>>
  /\ UNCHANGED <<providers, geminiClient, openaiClient, providerClients, req,
                 routeInfo, customStatusCodes, headers, bypassSent, client, orphaned,
                 adminVars>>

\* "Log the successful response", or the log call of the catch block
LogFinalResponse(r) ==
  /\ pc[r] = "logged"
  /\ logBuffer' = logApiRequest(logBuffer, LogEntry(started, TRUE))
  /\ pc' = [pc EXCEPT ![r] = "idle"]
  /\ UNCHANGED <<apiKeys, lastFailedKey, ctx, rotationStatusCodes, lastResponse,
                 lastError, apiKey, result, clientOut, served, inFlight, lastOutcome,
                 rotated, startHint, connected>>
  /\ UNCHANGED <<providers, geminiClient, openaiClient, providerClients, req,
                 routeInfo, customStatusCodes, headers, bypassSent, client, orphaned,
                 started, adminVars>>

NextLog ==
  \/ \E r \in Reqs : LogInitialRequest(r)
  \/ \E r \in Reqs : LogFinalResponse(r)

SpecLog == Init /\ [][NextLog]_vars

\* ============================================================ dispatcher
\* ProxyServer.handleRequest in front of the clients. A client is written
\* as the API type of its class; the key pool of the configured provider's
\* client is apiKeys / lastFailedKey.
RedirectStatus == 302
NotFoundStatus == 404
BadRequestStatus == 400
UnauthorizedStatus == 401
UnavailableStatus == 503

RedirectResponse == [statusCode |-> RedirectStatus, headers |-> "location", data |-> ""]
NotFoundResponse == [statusCode |-> NotFoundStatus, headers |-> "text", data |-> "Not found"]

\* req.url === '/'
IsRoot(url) == url.pathname = <<"/">> /\ url.search = <<>>
\* req.url === '/favicon.ico' || req.url === '/robots.txt'
IsBrowserFile(url) ==
  /\ url.pathname \in {<<"/", "favicon.ico">>, <<"/", "robots.txt">>}
  /\ url.search = <<>>
\* req.url.startsWith('/admin'), and the static file of the admin pages
IsAdminUrl(url) ==
  \/ Len(url.pathname) >= 2 /\ url.pathname[1] = "/" /\ url.pathname[2] = "admin"
  \/ url.pathname = <<"/", "tailwind-3.4.17.js">> /\ url.search = <<>>

\* the credential header handleRequest reads for the route's API type
AuthHeaderOf(request, apiType) ==
  IF apiType = "gemini" THEN request.xGoogApiKey ELSE request.authorization

\* extractRelevantHeaders, which copies neither credential header, then the
\* cleaned credential header under its own name when one is left
ForwardedHeaders(request, apiType) ==
  LET authHeader == AuthHeaderOf(request, apiType)
      cleanedAuth == cleanAuthHeader(authHeader)
  IN IF ~Falsy(authHeader) /\ ~Falsy(cleanedAuth)
     THEN IF apiType = "gemini" THEN [NoHeaders EXCEPT !.xGoogApiKey = cleanedAuth]
          ELSE [NoHeaders EXCEPT !.authorization = cleanedAuth]
     ELSE NoHeaders

\* the client getProviderClient returns, NoClient for null
getProviderClient(cache, legacyGemini, legacyOpenai, providerName, provider, legacy) ==
  IF legacy
  THEN IF providerName = "gemini" /\ legacyGemini # NoClient THEN legacyGemini
       ELSE IF providerName = "openai" /\ legacyOpenai # NoClient THEN legacyOpenai
       ELSE NoClient
  ELSE IF providerName \in DOMAIN cache THEN cache[providerName]
  ELSE IF provider = NoProvider THEN NoClient
  ELSE IF provider.apiType \in ApiTypes THEN NewClient(provider)
  ELSE NoClient

\* providerClients once getProviderClient has returned
CacheAfter(cache, providerName, provider, legacy) ==
  IF ~legacy /\ providerName \notin DOMAIN cache /\ provider # NoProvider
     /\ provider.apiType \in ApiTypes
  THEN [n \in DOMAIN cache \cup {providerName} |->
          IF n = providerName THEN NewClient(provider) ELSE cache[n]]
  ELSE cache

\* a Gemini client that rotates pool keys whatever the headers carry
UsesProvidedKeyNever(usedClient, forwarded) == FALSE

\* GeminiClient.makeRequest: if (providedApiKey); OpenAIClient has no such path
UsesProvidedKey(usedClient, forwarded) ==
  usedClient.apiType = "gemini" /\ ~Falsy(forwarded.xGoogApiKey)

\* an OpenAI client that sends the pool key whatever the headers carry
AuthorizationAlwaysPoolKey(forwarded, key) == <<TokBearer, Space, key>>

\* OpenAIClient.sendRequest: the Authorization header of one attempt, the
\* forwarded one when there is one, else Bearer and the key of the attempt
AttemptAuthorization(forwarded, key) ==
  IF Falsy(forwarded.authorization)
  THEN <<TokBearer, Space, key>>
  ELSE forwarded.authorization

\* the request-scoped state of a request that no rotation loop serves
NoRotation(r) ==
  /\ ctx' = [ctx EXCEPT ![r] = NoContext]
  /\ rotationStatusCodes' = [rotationStatusCodes EXCEPT ![r] = {}]
  /\ lastResponse' = [lastResponse EXCEPT ![r] = NoResponse]
  /\ lastError' = [lastError EXCEPT ![r] = NULL]
  /\ apiKey' = [apiKey EXCEPT ![r] = NULL]
  /\ served' = [served EXCEPT ![r] = <<>>]
  /\ lastOutcome' = [lastOutcome EXCEPT ![r] = NoOutcome]
  /\ rotated' = [rotated EXCEPT ![r] = <<>>]
  /\ startHint' = [startHint EXCEPT ![r] = NULL]

\* getProviderClient builds a client, and with it a KeyRotator
CreatesClient(cache, route) ==
  /\ ~route.legacy
  /\ route.providerName \notin DOMAIN cache
  /\ route.provider # NoProvider
  /\ route.provider.apiType \in ApiTypes

\* handleRequest answers by itself and returns
AnswerDirectly(r, response, route, codes, forwarded) ==
  /\ clientOut' = [clientOut EXCEPT ![r] = <<response>>]
  /\ pc' = [pc EXCEPT ![r] = "done"]
  /\ result' = [result EXCEPT ![r] = NoResult]
  /\ inFlight' = [inFlight EXCEPT ![r] = 0]
  /\ routeInfo' = [routeInfo EXCEPT ![r] = route]
  /\ customStatusCodes' = [customStatusCodes EXCEPT ![r] = codes]
  /\ headers' = [headers EXCEPT ![r] = forwarded]
  /\ bypassSent' = [bypassSent EXCEPT ![r] = <<>>]
  /\ client' = [client EXCEPT ![r] = NoClient]
  /\ connected' = [connected EXCEPT ![r] = TRUE]
  /\ NoRotation(r)
  /\ UNCHANGED <<apiKeys, lastFailedKey, providerClients>>

\* handleRequest calls client.makeRequest, which runs up to its first
\* upstream attempt: with the client's own key, or with the first pool key
EnterClient(r, route, codes, forwarded, usedClient) ==
  LET created == CreatesClient(providerClients, route)
      keys == IF created THEN usedClient.keys ELSE apiKeys
      hint == IF created THEN NULL ELSE lastFailedKey
  IN
  /\ routeInfo' = [routeInfo EXCEPT ![r] = route]
  /\ customStatusCodes' = [customStatusCodes EXCEPT ![r] = codes]
  /\ headers' = [headers EXCEPT ![r] = forwarded]
  /\ client' = [client EXCEPT ![r] = usedClient]
  /\ providerClients' =
       CacheAfter(providerClients, route.providerName, route.provider, route.legacy)
  /\ IF UsesProvidedKey(usedClient, forwarded)
     THEN /\ bypassSent' = [bypassSent EXCEPT ![r] = <<forwarded.xGoogApiKey>>]
          /\ inFlight' = [inFlight EXCEPT ![r] = 1]
          /\ pc' = [pc EXCEPT ![r] = "bypassing"]
          /\ result' = [result EXCEPT ![r] = NoResult]
          /\ clientOut' = [clientOut EXCEPT ![r] = <<>>]
          /\ connected' = [connected EXCEPT ![r] = TRUE]
          /\ apiKeys' = keys
          /\ lastFailedKey' = hint
          /\ NoRotation(r)
     ELSE /\ bypassSent' = [bypassSent EXCEPT ![r] = <<>>]
          /\ RotationEntryOn(r, codes, keys, hint)

\* a request arrives (its body has been read): handleRequest up to its
\* answer or to the first upstream attempt of client.makeRequest
HandleRequest(r, request) ==
  /\ pc[r] = "idle"
  /\ ~IsAdminUrl(request.url)
  /\ req' = [req EXCEPT ![r] = request]
  /\ UNCHANGED <<providers, geminiClient, openaiClient, orphaned, logBuffer, started, adminVars>>
  /\ LET route == parseRoute(providers, request.url)
         authHeader == AuthHeaderOf(request, route.apiType)
         codes == parseStatusCodesFromAuth(authHeader)
         forwarded == ForwardedHeaders(request, route.apiType)
         usedClient == getProviderClient(providerClients, geminiClient, openaiClient,
                                     route.providerName, route.provider, route.legacy)
     IN IF IsRoot(request.url)
        THEN AnswerDirectly(r, RedirectResponse, NoRoute, NullCodes, NoHeaders)
        ELSE IF IsBrowserFile(request.url)
        THEN AnswerDirectly(r, NotFoundResponse, NoRoute, NullCodes, NoHeaders)
        ELSE IF route = NoRoute
        THEN AnswerDirectly(r, sendError(BadRequestStatus), NoRoute, NullCodes, NoHeaders)
        ELSE IF ~validateAccessKey(providers, route.providerName, authHeader)
        THEN AnswerDirectly(r, sendError(UnauthorizedStatus), route, codes, NoHeaders)
        ELSE IF usedClient = NoClient
        THEN AnswerDirectly(r, sendError(UnavailableStatus), route, codes, forwarded)
        ELSE EnterClient(r, route, codes, forwarded, usedClient)

\* the single attempt with the client's key resolves with a response
BypassResponds(r, response) ==
  /\ pc[r] = "bypassing"
  /\ lastOutcome' = [lastOutcome EXCEPT ![r] = RespOutcome(response)]
  /\ result' = [result EXCEPT ![r] = Returned(response)]
  /\ pc' = [pc EXCEPT ![r] = "returned"]
  /\ inFlight' = [inFlight EXCEPT ![r] = @ - 1]
  /\ UNCHANGED <<apiKeys, lastFailedKey, ctx, rotationStatusCodes, lastResponse,
                 lastError, apiKey, clientOut, served, rotated, startHint>>
  /\ UNCHANGED <<serverVars, connected>>

\* the single attempt with the client's key rejects: makeRequest rethrows
BypassFails(r, error) ==
  /\ pc[r] = "bypassing"
  /\ lastOutcome' = [lastOutcome EXCEPT ![r] = ErrOutcome(error)]
  /\ result' = [result EXCEPT ![r] = Raised(error)]
  /\ pc' = [pc EXCEPT ![r] = "raised"]
  /\ inFlight' = [inFlight EXCEPT ![r] = @ - 1]
  /\ UNCHANGED <<apiKeys, lastFailedKey, ctx, rotationStatusCodes, lastResponse,
                 lastError, apiKey, clientOut, served, rotated, startHint>>
  /\ UNCHANGED <<serverVars, connected>>

\* handleRequest has written its answer and returns: the request and all
\* that was scoped to it are gone
FinishRequest(r) ==
  /\ pc[r] = "done"
  /\ pc' = [pc EXCEPT ![r] = "idle"]
  /\ req' = [req EXCEPT ![r] = NoRequest]
  /\ routeInfo' = [routeInfo EXCEPT ![r] = NoRoute]
  /\ customStatusCodes' = [customStatusCodes EXCEPT ![r] = NullCodes]
  /\ headers' = [headers EXCEPT ![r] = NoHeaders]
  /\ bypassSent' = [bypassSent EXCEPT ![r] = <<>>]
  /\ clientOut' = [clientOut EXCEPT ![r] = <<>>]
  /\ result' = [result EXCEPT ![r] = NoResult]
  /\ inFlight' = [inFlight EXCEPT ![r] = 0]
  /\ client' = [client EXCEPT ![r] = NoClient]
  /\ orphaned' = [orphaned EXCEPT ![r] = FALSE]
  /\ connected' = [connected EXCEPT ![r] = TRUE]
  /\ NoRotation(r)
  /\ UNCHANGED <<apiKeys, lastFailedKey, providers, geminiClient, openaiClient,
                 providerClients, logBuffer, started, adminVars>>

\* ----------------------------------------------- the configurations tried
\* a server has at most MaxServerKeys keys in the pool of its provider
MaxServerKeys == 2
ServerPools == {s \in Pools : Len(s) >= 1 /\ Len(s) <= MaxServerKeys}
AccessKeys == {Absent, <<"s1">>}

\* no provider, or one provider (Config.parseProviders keeps a provider
\* only when it has keys)
Configs ==
  {<<>>} \cup
  {[n \in {name} |-> [apiType |-> t, accessKey |-> a, keys |-> k, baseUrl |-> "u1"]] :
     name \in ProviderNames, t \in ApiTypes, a \in AccessKeys, k \in ServerPools}

\* main() builds a legacy client only from GEMINI_API_KEYS / OPENAI_API_KEYS,
\* which at the same time configure the provider of that name, without
\* access key (Config.parseBackwardCompatibility)
LegacyChoices(config, name) ==
  IF name \in DOMAIN config /\ config[name].apiType = name
     /\ Falsy(config[name].accessKey)
  THEN {NoClient, NewClient(config[name])} ELSE {NoClient}

\* the requests tried: a path under a first segment, and one credential
\* header or none
FirstSegments == {"openai", "OpenAI", "gemini", "nosuch"}
RestPaths ==
  {[rest |-> <<>>, search |-> <<>>],
   [rest |-> <<"/", "v1", "/", "chat">>, search |-> <<"?a=1">>],
   [rest |-> <<"/", "/", "v1", "/">>, search |-> <<>>]}
ServerUrls ==
  {[pathname |-> <<"/", first>> \o p.rest, search |-> p.search] :
     first \in FirstSegments, p \in RestPaths}
  \cup {[pathname |-> <<"/">>, search |-> <<>>],
        [pathname |-> <<"/">>, search |-> <<"?a=1">>],
        [pathname |-> <<"/", "favicon.ico">>, search |-> <<>>]}

Credentials ==
  {<<TokBearer, Space, "sk">>,
   <<"sk">>,
   <<TokBearer, Space, TokStatusCodes, "5", "0", "3", TokClose>>,
   <<TokBearer, Space, TokAccessKey, "s1", TokClose>>,
   <<TokBearer, Space, TokAccessKey, "s2", TokClose, "sk">>,
   <<TokStatusCodes, "4", "0", "0", "-", "3", "9", "9", TokClose,
     TokAccessKey, Space, "s1", Space, TokClose>>,
   <<TokBearer, Space, "[status_codes:", "5", "0", "0", ",", "5", "0", "2", "-",
     "5", "0", "4", TokClose, TokAccessKey, "s1", TokClose, "sk">>,
   <<TokAccessKey, "s2", TokClose, TokAccessKey, "s1", TokClose, "sk">>,
   <<TokStatusCodes, "5", "x", TokClose, "sk">>}

\* the credentials tried in x-goog-api-key
GoogCredentials ==
  {c \in Credentials : c[1] # TokBearer \/ TokAccessKey \in Range(c)}

\* every credential is tried on the urls that are a first segment alone,
\* every url with the plain key "sk" and with no credential
PlainUrls == {u \in ServerUrls : Len(u.pathname) = 2 /\ u.search = <<>>}
RequestsOf(urls, auths, googs) ==
  {[url |-> u, authorization |-> Absent, xGoogApiKey |-> Absent] : u \in urls}
  \cup {[url |-> u, authorization |-> c, xGoogApiKey |-> Absent] :
          u \in urls, c \in auths}
  \cup {[url |-> u, authorization |-> Absent, xGoogApiKey |-> c] :
          u \in urls, c \in googs}
ServerRequests ==
  RequestsOf(PlainUrls, Credentials, GoogCredentials)
  \cup RequestsOf(ServerUrls, {<<"sk">>}, {<<"sk">>})

ServerResponses ==
  {[statusCode |-> s, headers |-> "h1", data |-> "d1"] : s \in UpstreamStatuses}
ServerErrors == {"e1"}

InitServer ==
  /\ providers \in Configs
  /\ geminiClient \in LegacyChoices(providers, "gemini")
  /\ openaiClient \in LegacyChoices(providers, "openai")
  /\ providerClients = <<>>
  /\ InitRequests
  /\ apiKeys = IF DOMAIN providers = {} THEN <<>>
               ELSE providers[CHOOSE n \in DOMAIN providers : TRUE].keys
  /\ lastFailedKey = NULL
  /\ pc = [r \in Reqs |-> "idle"]
  /\ ctx = [r \in Reqs |-> NoContext]
  /\ rotationStatusCodes = [r \in Reqs |-> {}]
  /\ lastResponse = [r \in Reqs |-> NoResponse]
  /\ lastError = [r \in Reqs |-> NULL]
  /\ apiKey = [r \in Reqs |-> NULL]
  /\ result = [r \in Reqs |-> NoResult]
  /\ clientOut = [r \in Reqs |-> <<>>]
  /\ served = [r \in Reqs |-> <<>>]
  /\ inFlight = [r \in Reqs |-> 0]
  /\ lastOutcome = [r \in Reqs |-> NoOutcome]
  /\ rotated = [r \in Reqs |-> <<>>]
  /\ startHint = [r \in Reqs |-> NULL]

NextServer ==
  \/ \E r \in Reqs, request \in ServerRequests : HandleRequest(r, request)
  \/ \E r \in Reqs, response \in ServerResponses : AttemptResponds(r, response)
  \/ \E r \in Reqs, error \in ServerErrors : AttemptFails(r, error)
  \/ \E r \in Reqs, response \in ServerResponses : BypassResponds(r, response)
  \/ \E r \in Reqs, error \in ServerErrors : BypassFails(r, error)
  \/ \E r \in Reqs : DeliverResponse(r)
  \/ \E r \in Reqs : DeliverError(r)
  \/ \E r \in Reqs : FinishRequest(r)

SpecServer == InitServer /\ [][NextServer]_vars

\* ------------------------------------------- reloads between the requests
\* handleUpdateEnvVars after it has written the .env file: loadConfig and
\* reinitializeClients run one after the other without an await, so a
\* reload is one step between the steps of the requests in flight.
\* Config.loadConfig replaces every provider entry by a new object;
\* reinitializeClients clears providerClients and builds the legacy clients
\* anew. The requests in flight keep the route and the client they hold;
\* nothing refers to the KeyRotator of a dropped client but they.

\* a reload that leaves the cached clients in place
CacheKeptOnReload(cache) == cache

\* this.providerClients.clear()
CacheAfterReload(cache) == <<>>

Reload(config, legacyGemini, legacyOpenai) ==
  /\ providers' = config
  /\ providerClients' = CacheAfterReload(providerClients)
  /\ geminiClient' = legacyGemini
  /\ openaiClient' = legacyOpenai
  /\ orphaned' = [r \in DOMAIN orphaned |-> client[r] # NoClient]
  /\ apiKeys' = <<>>
  /\ lastFailedKey' = NULL
  /\ UNCHANGED <<pc, ctx, rotationStatusCodes, lastResponse, lastError, apiKey,
                 result, clientOut, served, inFlight, lastOutcome, rotated,
                 startHint, req, routeInfo, customStatusCodes, headers, bypassSent,
                 client, connected, logBuffer, started, adminVars>>

\* the configurations a reload may bring: no provider, or the provider
\* openai with one of two pairs of a key list and a base url
ReloadProviders ==
  {[apiType |-> "openai", accessKey |-> Absent, keys |-> p[1], baseUrl |-> p[2]] :
     p \in {<<<<"K1", "K2">>, "u1">>, <<<<"K2">>, "u2">>}}
ReloadConfigs ==
  {<<>>} \cup {[n \in {"openai"} |-> provider] : provider \in ReloadProviders}

ReloadRequests ==
  {[url |-> [pathname |-> <<"/", "openai", "/", "v1">>, search |-> <<>>],
    authorization |-> <<"sk">>, xGoogApiKey |-> Absent]}

InitReload ==
  /\ providers \in ReloadConfigs
  /\ geminiClient = NoClient
  /\ openaiClient \in LegacyChoices(providers, "openai")
  /\ providerClients = <<>>
  /\ req = [r \in ConcReqs |-> NoRequest]
  /\ routeInfo = [r \in ConcReqs |-> NoRoute]
  /\ customStatusCodes = [r \in ConcReqs |-> NullCodes]
  /\ headers = [r \in ConcReqs |-> NoHeaders]
  /\ bypassSent = [r \in ConcReqs |-> <<>>]
  /\ client = [r \in ConcReqs |-> NoClient]
  /\ orphaned = [r \in ConcReqs |-> FALSE]
  /\ connected = [r \in ConcReqs |-> TRUE]
  /\ logBuffer = <<>>
  /\ started = 0
  /\ InitAdmin
  /\ apiKeys = <<>>
  /\ lastFailedKey = NULL
  /\ pc = [r \in ConcReqs |-> "idle"]
  /\ ctx = [r \in ConcReqs |-> NoContext]
  /\ rotationStatusCodes = [r \in ConcReqs |-> {}]
  /\ lastResponse = [r \in ConcReqs |-> NoResponse]
  /\ lastError = [r \in ConcReqs |-> NULL]
  /\ apiKey = [r \in ConcReqs |-> NULL]
  /\ result = [r \in ConcReqs |-> NoResult]
  /\ clientOut = [r \in ConcReqs |-> <<>>]
  /\ served = [r \in ConcReqs |-> <<>>]
  /\ inFlight = [r \in ConcReqs |-> 0]
  /\ lastOutcome = [r \in ConcReqs |-> NoOutcome]
  /\ rotated = [r \in ConcReqs |-> <<>>]
  /\ startHint = [r \in ConcReqs |-> NULL]

NextReload ==
  \/ \E config \in ReloadConfigs :
       \E legacyOpenai \in LegacyChoices(config, "openai") :
         Reload(config, NoClient, legacyOpenai)
  \/ \E r \in ConcReqs, request \in ReloadRequests : HandleRequest(r, request)
  \/ \E r \in ConcReqs, response \in ConcResponses : AttemptResponds(r, response)
  \/ \E r \in ConcReqs, error \in ConcErrors : AttemptFails(r, error)
  \/ \E r \in ConcReqs : DeliverResponse(r)
  \/ \E r \in ConcReqs : DeliverError(r)
  \/ \E r \in ConcReqs : FinishRequest(r)

SpecReload == InitReload /\ [][NextReload]_vars

\* --------------------------------------- the directive parser on its own
\* handleRequest's call of parseStatusCodesFromAuth (line 150) on headers
\* whose STATUS_CODES directive holds every text of up to MaxSpecLen
\* characters of SpecChars, and on some headers of another shape
MaxSpecLen == 4
SpecChars == {"5", "0", "-", "+", "=", "x", Space, ","}
ParseHeaders ==
  {<<TokBearer, Space, "sk">>}
  \cup {<<TokBearer, Space, TokStatusCodes>> \o body \o <<TokClose, "sk">> :
          body \in SeqsUpTo(SpecChars, MaxSpecLen)}
  \cup {<<"[status_codes:">> \o body \o <<TokClose>> : body \in SeqsUpTo(SpecChars, 2)}

InitParse ==
  /\ providers = <<>>
  /\ geminiClient = NoClient
  /\ openaiClient = NoClient
  /\ providerClients = <<>>
  /\ \E header \in ParseHeaders :
       req = [r \in Reqs |-> [NoRequest EXCEPT !.authorization = header]]
  /\ routeInfo = [r \in Reqs |-> NoRoute]
  /\ customStatusCodes = [r \in Reqs |-> NullCodes]
  /\ headers = [r \in Reqs |-> NoHeaders]
  /\ bypassSent = [r \in Reqs |-> <<>>]
  /\ client = [r \in Reqs |-> NoClient]
  /\ orphaned = [r \in Reqs |-> FALSE]
  /\ connected = [r \in Reqs |-> TRUE]
  /\ logBuffer = <<>>
  /\ started = 0
  /\ InitAdmin
  /\ apiKeys = <<>>
  /\ lastFailedKey = NULL
  /\ pc = [r \in Reqs |-> "idle"]
  /\ ctx = [r \in Reqs |-> NoContext]
  /\ rotationStatusCodes = [r \in Reqs |-> {}]
  /\ lastResponse = [r \in Reqs |-> NoResponse]
  /\ lastError = [r \in Reqs |-> NULL]
  /\ apiKey = [r \in Reqs |-> NULL]
  /\ result = [r \in Reqs |-> NoResult]
  /\ clientOut = [r \in Reqs |-> <<>>]
  /\ served = [r \in Reqs |-> <<>>]
  /\ inFlight = [r \in Reqs |-> 0]
  /\ lastOutcome = [r \in Reqs |-> NoOutcome]
  /\ rotated = [r \in Reqs |-> <<>>]
  /\ startHint = [r \in Reqs |-> NULL]

ParseStatusCodes(r) ==
  /\ pc[r] = "idle"
  /\ customStatusCodes' =
       [customStatusCodes EXCEPT ![r] = parseStatusCodesFromAuth(req[r].authorization)]
  /\ pc' = [pc EXCEPT ![r] = "parsed"]
  /\ UNCHANGED <<apiKeys, lastFailedKey, ctx, rotationStatusCodes, lastResponse,
                 lastError, apiKey, result, clientOut, served, inFlight, lastOutcome,
                 rotated, startHint, providers, geminiClient, openaiClient,
                 providerClients, req, routeInfo, headers, bypassSent, client,
                 orphaned, connected, logBuffer, started, adminVars>>

NextParse == \E r \in Reqs : ParseStatusCodes(r)

SpecParse == InitParse /\ [][NextParse]_vars

\* ------------------------------------------ the header filter on its own
\* handleRequest builds the headers it hands to client.makeRequest from the
\* client's headers; here req[r] is the route's API type with the client's
\* headers, a function from header names to values, and headers[r] the
\* object handed on.

\* String.prototype.toLowerCase on a header name
HeaderLower(name) ==
  CASE name = "Accept" -> "accept"
    [] name = "Cookie" -> "cookie"
    [] OTHER -> name

\* headersToInclude
headersToInclude(apiType) ==
  IF apiType = "gemini"
  THEN {"content-type", "accept", "user-agent", "x-goog-user-project"}
  ELSE {"content-type", "accept", "user-agent", "openai-organization",
        "openai-project"}

\* a filter that copies every header of the client
extractEveryHeader(clientHeaders, apiType) == clientHeaders

\* extractRelevantHeaders(headers, apiType)
extractRelevantHeaders(clientHeaders, apiType) ==
  [key \in {k \in DOMAIN clientHeaders : HeaderLower(k) \in headersToInclude(apiType)}
     |-> clientHeaders[key]]

\* the name under which a flavor carries its credential
AuthHeaderName(apiType) ==
  IF apiType = "gemini" THEN "x-goog-api-key" ELSE "authorization"

\* req.headers[name], undefined for a header the client did not send
HeaderValue(clientHeaders, name) ==
  IF name \in DOMAIN clientHeaders THEN clientHeaders[name] ELSE Absent

\* obj[name] = value
WithHeader(obj, name, value) ==
  [key \in DOMAIN obj \cup {name} |-> IF key = name THEN value ELSE obj[key]]

\* handleRequest: the filtered headers, then the cleaned credential header
\* under its flavor's name when one is left
RelevantHeaders(clientHeaders, apiType) ==
  LET authHeader == HeaderValue(clientHeaders, AuthHeaderName(apiType))
      relevant == extractRelevantHeaders(clientHeaders, apiType)
      cleanedAuth == cleanAuthHeader(authHeader)
  IN IF ~Falsy(authHeader) /\ ~Falsy(cleanedAuth)
     THEN WithHeader(relevant, AuthHeaderName(apiType), cleanedAuth)
     ELSE relevant

\* the header names a client sends beside its credentials, and the
\* credential values tried
PlainHeaderNames ==
  {"content-type", "Accept", "user-agent", "openai-organization",
   "openai-project", "x-goog-user-project", "Cookie", "x-forwarded-for"}
HeaderCredentials ==
  {Absent,
   <<"sk">>,
   <<TokBearer, Space, TokAccessKey, "s1", TokClose>>,
   <<TokAccessKey, "s1", TokClose>>}

\* the client's headers with these plain names and these two credentials
ClientHeaders(names, authorization, xGoogApiKey) ==
  LET creds == {n \in {"authorization", "x-goog-api-key"} :
                  (IF n = "authorization" THEN authorization ELSE xGoogApiKey) # Absent}
  IN [n \in names \cup creds |->
        IF n = "authorization" THEN authorization
        ELSE IF n = "x-goog-api-key" THEN xGoogApiKey
        ELSE <<"v", n>>]

InitHeaders ==
  /\ providers = <<>>
  /\ geminiClient = NoClient
  /\ openaiClient = NoClient
  /\ providerClients = <<>>
  /\ \E apiType \in ApiTypes, names \in SUBSET PlainHeaderNames,
        authorization \in HeaderCredentials, xGoogApiKey \in HeaderCredentials :
       req = [r \in Reqs |->
                [apiType |-> apiType,
                 headers |-> ClientHeaders(names, authorization, xGoogApiKey)]]
  /\ routeInfo = [r \in Reqs |-> NoRoute]
  /\ customStatusCodes = [r \in Reqs |-> NullCodes]
  /\ headers = [r \in Reqs |-> <<>>]
  /\ bypassSent = [r \in Reqs |-> <<>>]
  /\ client = [r \in Reqs |-> NoClient]
  /\ orphaned = [r \in Reqs |-> FALSE]
  /\ connected = [r \in Reqs |-> TRUE]
  /\ logBuffer = <<>>
  /\ started = 0
  /\ InitAdmin
  /\ apiKeys = <<>>
  /\ lastFailedKey = NULL
  /\ pc = [r \in Reqs |-> "idle"]
  /\ ctx = [r \in Reqs |-> NoContext]
  /\ rotationStatusCodes = [r \in Reqs |-> {}]
  /\ lastResponse = [r \in Reqs |-> NoResponse]
  /\ lastError = [r \in Reqs |-> NULL]
  /\ apiKey = [r \in Reqs |-> NULL]
  /\ result = [r \in Reqs |-> NoResult]
  /\ clientOut = [r \in Reqs |-> <<>>]
  /\ served = [r \in Reqs |-> <<>>]
  /\ inFlight = [r \in Reqs |-> 0]
  /\ lastOutcome = [r \in Reqs |-> NoOutcome]
  /\ rotated = [r \in Reqs |-> <<>>]
  /\ startHint = [r \in Reqs |-> NULL]

\* handleRequest from the credential header it reads to the headers it
\* hands to client.makeRequest
ForwardHeaders(r) ==
  /\ pc[r] = "idle"
  /\ headers' = [headers EXCEPT ![r] = RelevantHeaders(req[r].headers, req[r].apiType)]
  /\ pc' = [pc EXCEPT ![r] = "forwarded"]
  /\ UNCHANGED <<apiKeys, lastFailedKey, ctx, rotationStatusCodes, lastResponse,
                 lastError, apiKey, result, clientOut, served, inFlight, lastOutcome,
                 rotated, startHint, providers, geminiClient, openaiClient,
                 providerClients, req, routeInfo, customStatusCodes, bypassSent,
                 client, orphaned, connected, logBuffer, started, adminVars>>

NextHeaders == \E r \in Reqs : ForwardHeaders(r)

SpecHeaders == InitHeaders /\ [][NextHeaders]_vars

\* ---------------------------------------------------- the admin panel
\* handleRequest hands every url that starts with /admin to
\* handleAdminRequest once the body is read; handleAdminRequest then runs
\* without an await up to the handler it calls, so one admin request is one
\* step. Here req[r] is the admin request: its path, method, Cookie header
\* and body. A Cookie header is the sequence of its cookies, each cookie
\* the sequence of the parts around its '=' signs; a request without Cookie
\* header has the empty sequence, which parseCookies treats alike.

\* the password in the .env file, which loadConfig requires
AdminPassword == "pw"
\* the values crypto.randomBytes may give
SessionTokens == {"t1", "t2"}
\* failedLoginAttempts >= 5
MaxFailedLogins == 5
\* 5 * 60 * 1000 ms, in the unit of now
BlockTime == 2
\* the clock stops at MaxTime, and no login fails once MaxAttempts have
MaxTime == 3
MaxAttempts == 6

\* parseCookies(cookieHeader): a cookie counts when it has one '=', the
\* last one of a name wins
RECURSIVE parseCookies(_)
parseCookies(cookieHeader) ==
  IF cookieHeader = <<>> THEN <<>>
  ELSE LET n == Len(cookieHeader)
           before == parseCookies(SubSeq(cookieHeader, 1, n - 1))
           parts == cookieHeader[n]
       IN IF Len(parts) = 2 THEN WithHeader(before, parts[1], parts[2])
          ELSE before

\* cookies.adminSession, undefined when there is none
NoCookie == "undefined"
adminSessionOf(cookieHeader) ==
  LET cookies == parseCookies(cookieHeader)
  IN IF "adminSession" \in DOMAIN cookies THEN cookies["adminSession"] ELSE NoCookie

\* a check that takes any adminSession cookie for a session
isAuthenticatedByAnyCookie(request, sessionToken) ==
  adminSessionOf(request.cookie) # NoCookie

\* isAdminAuthenticated(req)
isAdminAuthenticated(request, sessionToken) ==
  adminSessionOf(request.cookie) = sessionToken /\ sessionToken # NULL

\* the handler behind the authentication check for a path and method,
\* NULL where handleAdminRequest answers 404
ProtectedHandler(path, method) ==
  CASE path = "/admin/api/env" /\ method = "GET" -> "handleGetEnvVars"
    [] path = "/admin/api/env-file" /\ method = "GET" -> "handleGetEnvFile"
    [] path = "/admin/api/env" /\ method = "POST" -> "handleUpdateEnvVars"
    [] path = "/admin/api/test" /\ method = "POST" -> "handleTestApiKey"
    [] path = "/admin/api/logs" /\ method = "GET" -> "handleGetLogs"
    [] path = "/admin/api/response/1" /\ method = "GET" -> "handleGetResponse"
    [] OTHER -> NULL

AdminResponse(statusCode, data) ==
  [statusCode |-> statusCode, headers |-> "json", data |-> data]

\* handleAdminRequest answers and leaves the session as it is; handler is
\* the protected handler it has run, or NULL
AdminAnswers(r, statusCode, data, handler) ==
  /\ clientOut' = [clientOut EXCEPT ![r] = <<AdminResponse(statusCode, data)>>]
  /\ adminOp' = [adminOp EXCEPT ![r] = handler]
  /\ UNCHANGED <<adminSessionToken, failedLoginAttempts, loginBlockedUntil>>

\* this.loginBlockedUntil && Date.now() < this.loginBlockedUntil
LoginBlocked == loginBlockedUntil # NoBlock /\ now < loginBlockedUntil

\* handleAdminLogin(req, res, body); token is what generateSessionToken
\* gives, body.json says whether JSON.parse(body) succeeds
handleAdminLogin(r, body, token) ==
  /\ adminOp' = [adminOp EXCEPT ![r] = NULL]
  /\ IF LoginBlocked
     THEN /\ clientOut' = [clientOut EXCEPT ![r] = <<AdminResponse(429, "blocked")>>]
          /\ UNCHANGED <<adminSessionToken, failedLoginAttempts, loginBlockedUntil>>
     ELSE IF ~body.json
     THEN /\ clientOut' = [clientOut EXCEPT ![r] = <<ErrorEnvelope(400)>>]
          /\ UNCHANGED <<adminSessionToken, failedLoginAttempts, loginBlockedUntil>>
     ELSE IF body.password = AdminPassword
     THEN /\ failedLoginAttempts' = 0
          /\ loginBlockedUntil' = NoBlock
          /\ adminSessionToken' = token
          /\ clientOut' = [clientOut EXCEPT ![r] = <<AdminResponse(200, token)>>]
     ELSE /\ failedLoginAttempts < MaxAttempts
          /\ failedLoginAttempts' = failedLoginAttempts + 1
          /\ adminSessionToken' = adminSessionToken
          /\ IF failedLoginAttempts + 1 >= MaxFailedLogins
             THEN /\ loginBlockedUntil' = now + BlockTime
                  /\ clientOut' = [clientOut EXCEPT ![r] = <<AdminResponse(429, "blocked")>>]
             ELSE /\ loginBlockedUntil' = loginBlockedUntil
                  /\ clientOut' = [clientOut EXCEPT ![r] = <<AdminResponse(401, "invalid")>>]

\* handleAdminRequest(req, res, body), the handlers it calls included
HandleAdminRequest(r, request, token) ==
  /\ pc[r] = "idle"
  /\ req' = [req EXCEPT ![r] = request]
  /\ pc' = [pc EXCEPT ![r] = "done"]
  /\ IF request.path \in {"/admin", "/admin/"}
     THEN AdminAnswers(r, 200, "page", NULL)
     ELSE IF request.path = "/admin/api/auth" /\ request.method = "GET"
     THEN AdminAnswers(r, 200,
                       IF isAdminAuthenticated(request, adminSessionToken)
                       THEN "authenticated" ELSE "anonymous", NULL)
     ELSE IF request.path = "/admin/api/login-status" /\ request.method = "GET"
     THEN AdminAnswers(r, 200, IF LoginBlocked THEN "blocked" ELSE "open", NULL)
     ELSE IF request.path = "/admin/login" /\ request.method = "POST"
     THEN handleAdminLogin(r, request.body, token)
     ELSE IF request.path = "/admin/logout" /\ request.method = "POST"
     THEN /\ adminSessionToken' = NULL
          /\ clientOut' = [clientOut EXCEPT ![r] = <<AdminResponse(200, "success")>>]
          /\ adminOp' = [adminOp EXCEPT ![r] = NULL]
          /\ UNCHANGED <<failedLoginAttempts, loginBlockedUntil>>
     ELSE IF ~isAdminAuthenticated(request, adminSessionToken)
     THEN AdminAnswers(r, 401, "Unauthorized", NULL)
     ELSE IF ProtectedHandler(request.path, request.method) = NULL
     THEN /\ clientOut' = [clientOut EXCEPT ![r] = <<ErrorEnvelope(404)>>]
          /\ adminOp' = [adminOp EXCEPT ![r] = NULL]
          /\ UNCHANGED <<adminSessionToken, failedLoginAttempts, loginBlockedUntil>>
     ELSE AdminAnswers(r, 200, "done",
                       ProtectedHandler(request.path, request.method))
  /\ UNCHANGED <<apiKeys, lastFailedKey, ctx, rotationStatusCodes, lastResponse,
                 lastError, apiKey, result, served, inFlight, lastOutcome,
                 rotated, startHint, providers, geminiClient, openaiClient,
                 providerClients, routeInfo, customStatusCodes, headers, bypassSent,
                 client, orphaned, connected, logBuffer, started, now>>

\* time passes
Tick ==
  /\ now < MaxTime
  /\ now' = now + 1
  /\ UNCHANGED <<apiKeys, lastFailedKey, pc, ctx, rotationStatusCodes, lastResponse,
                 lastError, apiKey, result, clientOut, served, inFlight, lastOutcome,
                 rotated, startHint, connected, providers, geminiClient,
                 openaiClient, providerClients, req, routeInfo, customStatusCodes,
                 headers, bypassSent, client, orphaned, logBuffer, started,
                 adminSessionToken, failedLoginAttempts, loginBlockedUntil, adminOp>>

\* the admin requests tried
AdminPaths ==
  {"/admin", "/admin/api/auth", "/admin/api/login-status", "/admin/logout",
   "/admin/api/env", "/admin/api/env-file", "/admin/api/test", "/admin/api/logs",
   "/admin/api/response/1", "/admin/api/nosuch"}
CookieHeaders ==
  {<<>>,
   <<<<"adminSession", "t1">>>>,
   <<<<"adminSession", "t2">>>>,
   <<<<"adminSession", "">>>>,
   <<<<"adminSession">>>>,
   <<<<"adminSession", "t1", "">>>>,
   <<<<"session", "t1">>>>,
   <<<<"adminSession", "t1">>, <<"adminSession", "t2">>>>,
   <<<<"adminSession", "t2">>, <<"adminSession", "t1", "">>>>}
LoginBodies ==
  {[json |-> TRUE, password |-> "pw"], [json |-> TRUE, password |-> "bad"],
   [json |-> FALSE, password |-> "none"]}
AdminRequests ==
  {[path |-> p, method |-> m, cookie |-> c,
    body |-> [json |-> TRUE, password |-> "none"]] :
     p \in AdminPaths, m \in {"GET", "POST"}, c \in CookieHeaders}
  \cup {[path |-> "/admin/login", method |-> "POST", cookie |-> c, body |-> b] :
          c \in {<<>>, <<<<"adminSession", "t1">>>>}, b \in LoginBodies}

InitAdminPanel ==
  /\ providers = <<>>
  /\ geminiClient = NoClient
  /\ openaiClient = NoClient
  /\ providerClients = <<>>
  /\ InitRequests
  /\ apiKeys = <<>>
  /\ lastFailedKey = NULL
  /\ pc = [r \in Reqs |-> "idle"]
  /\ ctx = [r \in Reqs |-> NoContext]
  /\ rotationStatusCodes = [r \in Reqs |-> {}]
  /\ lastResponse = [r \in Reqs |-> NoResponse]
  /\ lastError = [r \in Reqs |-> NULL]
  /\ apiKey = [r \in Reqs |-> NULL]
  /\ result = [r \in Reqs |-> NoResult]
  /\ clientOut = [r \in Reqs |-> <<>>]
  /\ served = [r \in Reqs |-> <<>>]
  /\ inFlight = [r \in Reqs |-> 0]
  /\ lastOutcome = [r \in Reqs |-> NoOutcome]
  /\ rotated = [r \in Reqs |-> <<>>]
  /\ startHint = [r \in Reqs |-> NULL]

NextAdmin ==
  \/ \E r \in Reqs, request \in AdminRequests, token \in SessionTokens :
       HandleAdminRequest(r, request, token)
  \/ \E r \in Reqs : FinishRequest(r)
  \/ Tick

SpecAdmin == InitAdminPanel /\ [][NextAdmin]_vars

\* ------------------------------------------- the header cleaner on its own
\* cleanAuthHeader applied to a header and then to its own result, on the
\* headers made of up to MaxPieces pieces: plain text, whole directives,
\* a directive name without body, and the halves of a directive name
MaxPieces == 5
HeaderPieces ==
  {<<TokBearer>>, <<Space>>, <<"k">>, <<TokClose>>,
   <<TokStatusCodes, "4", TokClose>>, <<TokAccessKey, "k", TokClose>>,
   <<TokStatusCodes>>, <<TokStatusHead>>, <<TokStatusTail>>}
RECURSIVE Concat(_)
Concat(pieces) ==
  IF pieces = <<>> THEN <<>> ELSE Head(pieces) \o Concat(Tail(pieces))
\* the headers written with up to n pieces
CleanHeaders(n) ==
  {Lexemes(Concat(pieces)) : pieces \in SeqsUpTo(HeaderPieces, n)}

InitClean ==
  /\ providers = <<>>
  /\ geminiClient = NoClient
  /\ openaiClient = NoClient
  /\ providerClients = <<>>
  /\ \E header \in CleanHeaders(MaxPieces) \cup {Absent} :
       req = [r \in Reqs |-> [NoRequest EXCEPT !.authorization = header]]
  /\ routeInfo = [r \in Reqs |-> NoRoute]
  /\ customStatusCodes = [r \in Reqs |-> NullCodes]
  /\ headers = [r \in Reqs |-> NoHeaders]
  /\ bypassSent = [r \in Reqs |-> <<>>]
  /\ client = [r \in Reqs |-> NoClient]
  /\ orphaned = [r \in Reqs |-> FALSE]
  /\ connected = [r \in Reqs |-> TRUE]
  /\ logBuffer = <<>>
  /\ started = 0
  /\ InitAdmin
  /\ apiKeys = <<>>
  /\ lastFailedKey = NULL
  /\ pc = [r \in Reqs |-> "idle"]
  /\ ctx = [r \in Reqs |-> NoContext]
  /\ rotationStatusCodes = [r \in Reqs |-> {}]
  /\ lastResponse = [r \in Reqs |-> NoResponse]
  /\ lastError = [r \in Reqs |-> NULL]
  /\ apiKey = [r \in Reqs |-> NULL]
  /\ result = [r \in Reqs |-> NoResult]
  /\ clientOut = [r \in Reqs |-> <<>>]
  /\ served = [r \in Reqs |-> <<>>]
  /\ inFlight = [r \in Reqs |-> 0]
  /\ lastOutcome = [r \in Reqs |-> NoOutcome]
  /\ rotated = [r \in Reqs |-> <<>>]
  /\ startHint = [r \in Reqs |-> NULL]

\* the header goes through cleanAuthHeader: first the client's header,
\* then the cleaned header itself
CleanHeader(r, from, to, authHeader) ==
  /\ pc[r] = from
  /\ headers' = [headers EXCEPT ![r].authorization = cleanAuthHeader(authHeader)]
  /\ pc' = [pc EXCEPT ![r] = to]
  /\ UNCHANGED <<apiKeys, lastFailedKey, ctx, rotationStatusCodes, lastResponse,
                 lastError, apiKey, result, clientOut, served, inFlight, lastOutcome,
                 rotated, startHint, providers, geminiClient, openaiClient,
                 providerClients, req, routeInfo, customStatusCodes, bypassSent,
                 client, orphaned, connected, logBuffer, started, adminVars>>

NextClean ==
  \/ \E r \in Reqs : CleanHeader(r, "idle", "cleaned", req[r].authorization)
  \/ \E r \in Reqs : CleanHeader(r, "cleaned", "recleaned", headers[r].authorization)

SpecClean == InitClean /\ [][NextClean]_vars

\* ================================================================ claims
NoDuplicates(s) == \A i, j \in 1..Len(s) : i # j => s[i] # s[j]

IsPermutation(a, b) ==
  /\ Len(a) = Len(b)
  /\ \A k \in Range(a) \cup Range(b) : Count(a, k) = Count(b, k)

\* the latest attempt of r settled with a response outside the rotation set
EndedByNonRotation(r) ==
  /\ lastOutcome[r].kind = "response"
  /\ lastOutcome[r].response.statusCode \notin rotationStatusCodes[r]

\* makeRequest of r has ended after getNextKey returned null
Exhausted(r) == pc[r] \in {"returned", "raised"} /\ ~EndedByNonRotation(r)

\* C1: a request makes at most as many upstream attempts as the pool has
\* keys, whatever mix of rotation responses and transport errors it meets.
C1_AttemptsAtMostKeys ==
  \A r \in Reqs : Len(served[r]) <= Len(apiKeys)

C1_Witness ==
  \E r \in Reqs :
    /\ Len(apiKeys) = MaxKeys
    /\ Len(served[r]) = Len(apiKeys)
    /\ ctx[r].rateLimitedKeys # {}
    /\ lastError[r] # NULL
    /\ pc[r] \in {"returned", "raised"}

\* C2: a request never has two attempts in flight, and once an attempt has
\* answered with a status outside the rotation set the request has returned
\* that response and has no attempt in flight, untried keys or not.
C2_SequentialFirstNonRotationEnds ==
  \A r \in Reqs :
    /\ inFlight[r] <= 1
    /\ (pc[r] = "awaiting") = (inFlight[r] = 1)
    /\ EndedByNonRotation(r) =>
         /\ pc[r] \in {"returned", "done"}
         /\ inFlight[r] = 0
         /\ result[r] = Returned(lastOutcome[r].response)

C2_Witness ==
  \E r \in Reqs :
    /\ EndedByNonRotation(r)
    /\ pc[r] = "returned"
    /\ Len(served[r]) = 2
    /\ ~allKeysTried(ctx[r])

\* C3: whenever makeRequest has returned a response, its status is outside
\* the rotation set or every key tried was rate limited (at least one tried,
\* as many rate limited as tried).
C3_ReturnedNonRotationOrAllRateLimited ==
  \A r \in Reqs :
    pc[r] = "returned" =>
      \/ result[r].response.statusCode \notin rotationStatusCodes[r]
      \/ /\ Cardinality(ctx[r].triedKeys) > 0
         /\ Cardinality(ctx[r].rateLimitedKeys) = Cardinality(ctx[r].triedKeys)

C3_Witness ==
  \E r \in Reqs :
    /\ pc[r] = "returned"
    /\ result[r].response.statusCode \in rotationStatusCodes[r]
    /\ Cardinality(ctx[r].triedKeys) = MaxKeys

\* C4: a request that ended with an upstream response outside the rotation
\* set has written exactly one response to the client, with the status,
\* headers and body of that final attempt; no request writes two responses.
C4_NonRotationForwardedOnce ==
  \A r \in Reqs :
    /\ Len(clientOut[r]) <= 1
    /\ (pc[r] = "done" /\ EndedByNonRotation(r)) =>
         clientOut[r] = <<lastOutcome[r].response>>

C4_Witness ==
  \E r \in Reqs :
    /\ pc[r] = "done"
    /\ EndedByNonRotation(r)
    /\ lastOutcome[r].response.statusCode = 503
    /\ Len(served[r]) >= 2
    /\ Len(clientOut[r]) = 1

\* C5: whatever sequence of getNextKey and markKeyAsRateLimited calls a
\* context sees, getNextKey returns no key twice: the keys returned are
\* exactly the tried set, which therefore only grows.
C5_KeyServedAtMostOnce ==
  \A r \in Reqs :
    /\ NoDuplicates(served[r])
    /\ pc[r] = "open" => Range(served[r]) = ctx[r].triedKeys

C5_Witness ==
  \E r \in Reqs :
    /\ pc[r] = "open"
    /\ Len(served[r]) = MaxKeys
    /\ ctx[r].rateLimitedKeys # {}
    /\ ctx[r].rateLimitedKeys # ctx[r].triedKeys
    /\ apiKey[r] = NULL

\* C6: the attempt order of a new context is a permutation of the pool's key
\* list, and it ends with the pool's lastFailedKey when that key is in the pool.
C6_AttemptOrderPermutationHintLast ==
  \A r \in Reqs :
    pc[r] = "open" =>
      /\ IsPermutation(ctx[r].apiKeys, apiKeys)
      /\ (startHint[r] # NULL /\ startHint[r] \in Range(apiKeys)) =>
           ctx[r].apiKeys[Len(apiKeys)] = startHint[r]

C6_Witness ==
  \E r \in Reqs :
    /\ pc[r] = "open"
    /\ served[r] = <<>>
    /\ Len(apiKeys) = MaxKeys
    /\ startHint[r] \in Range(apiKeys)
    /\ apiKeys[Len(apiKeys)] # startHint[r]
    /\ ctx[r].apiKeys[1] # apiKeys[1]

\* h is attempted by r only after every other key of the pool
AttemptedLast(r, h) ==
  \A i \in 1..Len(served[r]) :
    served[r][i] = h => Range(apiKeys) \ {h} \subseteq {served[r][j] : j \in 1..(i-1)}

C8_Original ==
  \A r \in Reqs :
    (pc[r] = "returned" /\ EndedByNonRotation(r)) =>
      lastFailedKey = IF rotated[r] = <<>> THEN NULL ELSE rotated[r][Len(rotated[r])]

\* C9: when every key of the pool was attempted and every attempt returned
\* a rotation status, makeRequest returns the response of the last attempt.
C9_AllRotatedReturnsLastResponse ==
  \A r \in Reqs :
    (/\ pc[r] = "returned"
     /\ served[r] # <<>>
     /\ Range(served[r]) = Range(apiKeys)
     /\ rotated[r] = served[r]) =>
      /\ lastOutcome[r].kind = "response"
      /\ result[r] = Returned(lastOutcome[r].response)

C9_Witness ==
  \E r \in Reqs :
    /\ pc[r] = "returned"
    /\ Len(served[r]) = MaxKeys
    /\ rotated[r] = served[r]
    /\ result[r].response.statusCode = 503

\* C10: the step in which getNextKey returns null and makeRequest returns
\* or throws leaves the pool's lastFailedKey set to the key of the latest
\* attempt of this request that returned a rotation code, or to null when
\* no attempt of it did.
C10_ExhaustionRecordsLastRotatedKey ==
  [][\A r \in Reqs :
       (~Exhausted(r) /\ Exhausted(r)') =>
         lastFailedKey' = IF rotated'[r] = <<>> THEN NULL
                          ELSE rotated'[r][Len(rotated'[r])]]_vars

C10_Witness ==
  \E r \in Reqs :
    /\ Exhausted(r)
    /\ pc[r] = "raised"
    /\ startHint[r] # NULL
    /\ rotated[r] = <<>>
    /\ Len(served[r]) >= 2
    /\ lastFailedKey = NULL

\* every key of the pool was attempted and every attempt returned a status
\* of the request's rotation set
AllKeysRotated(r) ==
  /\ served[r] # <<>>
  /\ Range(served[r]) = Range(apiKeys)
  /\ rotated[r] = served[r]

\* C11 as stated: when all keys of the pool return statuses in the
\* request's rotation set (the default set or a custom one), the response
\* delivered to the client has status 429.
C11_Original ==
  \A r \in Reqs :
    (pc[r] = "done" /\ AllKeysRotated(r)) =>
      /\ Len(clientOut[r]) = 1
      /\ clientOut[r][1].statusCode = 429

\* ------------------------------------------------- claims on the dispatcher
\* request r has been routed to a configured provider
RoutedToProvider(r) ==
  pc[r] # "idle" /\ routeInfo[r] # NoRoute /\ ~routeInfo[r].legacy

\* the credential header of r that belongs to its route's API type
AuthHeader(r) == AuthHeaderOf(req[r], routeInfo[r].apiType)

\* an upstream attempt has been made for request r
AttemptMade(r) == served[r] # <<>> \/ bypassSent[r] # <<>>

\* request r was answered 401 without any upstream attempt
Denied(r) ==
  /\ pc[r] = "done"
  /\ clientOut[r] = <<ErrorEnvelope(UnauthorizedStatus)>>
  /\ ~AttemptMade(r)
  /\ inFlight[r] = 0

\* C12: for a request routed to a provider whose configuration declares an
\* access key, a credential header without ACCESS_KEY directive, or with a
\* directive whose value is not the configured key, is answered 401 and no
\* upstream attempt is made; with the configured key the request goes on to
\* the upstream client. For a provider without access key the request goes
\* on with or without the directive.
C12_AccessKeyGate ==
  \A r \in Reqs :
    RoutedToProvider(r) =>
      LET accessKey == routeInfo[r].provider.accessKey
          provided == parseAccessKeyFromAuth(AuthHeader(r))
      IN IF ~Falsy(accessKey) /\ provided # accessKey
         THEN Denied(r)
         ELSE /\ AttemptMade(r)
              /\ \A i \in 1..Len(clientOut[r]) :
                   clientOut[r][i] # ErrorEnvelope(UnauthorizedStatus)

C12_Witness ==
  \E r \in Reqs :
    /\ RoutedToProvider(r)
    /\ routeInfo[r].provider.accessKey = <<"s1">>
    /\ parseAccessKeyFromAuth(AuthHeader(r)) = <<"s2">>
    /\ Denied(r)
    /\ lastFailedKey # NULL

\* the header has no STATUS_CODES directive
NoStatusDirective(header) ==
  Falsy(header) \/ \A i \in 1..Len(header) : ToUpperCase(header[i]) # TokStatusCodes

\* the text of the header's STATUS_CODES directive is this one
DirectiveIs(header, text) ==
  ~NoStatusDirective(header) /\ MatchGroup(header, TokStatusCodes) = text

\* the grammar of the status-code spec as documented: an integer is a
\* non-empty run of decimal digits, a plus sign before it and whitespace
\* around it aside
Unsigned(text) ==
  LET t == Trim(text) IN IF t # <<>> /\ t[1] = "+" THEN Tail(t) ELSE t
IsInt(text) ==
  /\ Unsigned(text) # <<>>
  /\ \A i \in 1..Len(Unsigned(text)) : Unsigned(text)[i] \in Range(DecimalDigits)
IntValue(text) == DigitsValue(Unsigned(text), DecimalDigits)

\* what one term contributes as documented: n=+ gives n..599, n+ gives
\* n+1..599, a-b gives a..b, n gives itself, anything else gives nothing
TermCodes(term) ==
  LET t == Trim(term)
  IN IF EndsWith(t, <<"=", "+">>) /\ IsInt(SliceOffEnd(t, 2))
     THEN IntValue(SliceOffEnd(t, 2))..599
     ELSE IF EndsWith(t, <<"+">>) /\ IsInt(SliceOffEnd(t, 1))
     THEN (IntValue(SliceOffEnd(t, 1)) + 1)..599
     ELSE IF Len(Split(t, "-")) = 2 /\ IsInt(Split(t, "-")[1]) /\ IsInt(Split(t, "-")[2])
     THEN IntValue(Split(t, "-")[1])..IntValue(Split(t, "-")[2])
     ELSE IF IsInt(t) THEN {IntValue(t)}
     ELSE {}

\* the terms of the header's STATUS_CODES directive, none without directive
DirectiveTerms(header) ==
  IF MatchGroup(header, TokStatusCodes) = Absent THEN <<>>
  ELSE Split(MatchGroup(header, TokStatusCodes), ",")

\* what the directive of the header yields as documented
DirectiveCodes(header) ==
  UNION {TermCodes(DirectiveTerms(header)[i]) : i \in 1..Len(DirectiveTerms(header))}

\* the rotation loop serves request r
Rotating(r) == served[r] # <<>>

\* the awaited attempt of r resolves with a response in this step
Responds(r) == pc[r] = "awaiting" /\ lastOutcome'[r].kind = "response"

\* after a step in which the attempt of r answered: the next key is tried
\* (or no key is left and makeRequest ends)
RotatedOn(r) ==
  /\ rotated'[r] = Append(rotated[r], apiKey[r])
  /\ \/ /\ pc'[r] = "awaiting"
        /\ Len(served'[r]) = Len(served[r]) + 1
        /\ apiKey'[r] \notin Range(served[r])
     \/ /\ pc'[r] \in {"returned", "raised"}
        /\ Range(apiKeys) \subseteq Range(served[r])
        /\ served'[r] = served[r]

\* after a step in which the attempt of r answered: the request ends with
\* that response
EndedWith(r) ==
  /\ pc'[r] = "returned"
  /\ result'[r] = Returned(lastOutcome'[r].response)
  /\ served'[r] = served[r]
  /\ rotated'[r] = rotated[r]

\* C13 as stated: when the credential header has no STATUS_CODES directive,
\* or a directive that yields no valid code (all of its terms invalid, such
\* as 400-399 alone), the rotation set of the request is {429}.
C13_Original ==
  \A r \in Reqs :
    (Rotating(r) /\ DirectiveCodes(AuthHeader(r)) = {}) =>
      rotationStatusCodes[r] = {429}

\* the rotation set the claim gives for the directive texts tried
Text503 == <<"5", "0", "3">>
Text500And502To504 ==
  <<"5", "0", "0", ",", "5", "0", "2", "-", "5", "0", "4">>

\* C14: when the credential header's STATUS_CODES directive yields a
\* non-empty set S ("503" gives {503}, "500,502-504" gives
\* {500,502,503,504}), the rotation set of the request is S: an answer in S
\* is followed by the next key, 429 included only when in S, and an answer
\* outside S ends the request with that response; so 503 then 200 makes
\* exactly two attempts and returns the 200.
C14_CustomRotationSet ==
  [][\A r \in Reqs :
       \A S \in {{503}, {500, 502, 503, 504}} :
         (/\ Rotating(r)'
          /\ DirectiveIs(AuthHeader(r)',
                         IF S = {503} THEN Text503 ELSE Text500And502To504)) =>
           /\ rotationStatusCodes'[r] = S
           /\ Responds(r) =>
                IF lastOutcome'[r].response.statusCode \in S
                THEN RotatedOn(r) ELSE EndedWith(r)]_vars

C14_Witness ==
  \E r \in Reqs :
    /\ DirectiveIs(AuthHeader(r), Text500And502To504)
    /\ rotationStatusCodes[r] = {500, 502, 503, 504}
    /\ Len(rotated[r]) = 1
    /\ lastOutcome[r].response.statusCode = 200
    /\ Len(served[r]) = 2
    /\ pc[r] = "done"
    /\ clientOut[r] = <<lastOutcome[r].response>>

\* ------------------------------------------------ claims on the exhaustion
\* every attempt of r so far failed with a transport error: a response
\* outside the rotation set would have ended the request, one inside it is
\* recorded in rotated
OnlyTransportErrors(r) == served[r] # <<>> /\ rotated[r] = <<>>

\* C15: when every attempt of a request fails with a transport error and
\* none returned a rotation response, the failing attempt is followed by
\* the next key while a key of the pool is untried, makeRequest raises the
\* last transport error once every key has been tried, and the dispatcher
\* answers the client with the 500 error envelope.
C15_TransportFailure ==
  [][\A r \in Reqs :
       /\ (/\ pc[r] = "awaiting"
           /\ OnlyTransportErrors(r)
           /\ lastOutcome'[r].kind = "error") =>
            IF Range(apiKeys) \subseteq Range(served[r])
            THEN /\ pc'[r] = "raised"
                 /\ result'[r] = Raised(lastOutcome'[r].error)
                 /\ served'[r] = served[r]
            ELSE /\ pc'[r] = "awaiting"
                 /\ Len(served'[r]) = Len(served[r]) + 1
       /\ (/\ pc[r] = "raised"
           /\ OnlyTransportErrors(r)
           /\ pc'[r] = "done") =>
            clientOut'[r] = <<ErrorEnvelope(500)>>]_vars

C15_Witness ==
  \E r \in Reqs :
    /\ pc[r] = "done"
    /\ OnlyTransportErrors(r)
    /\ Len(served[r]) = 3
    /\ result[r] = Raised("e2")
    /\ clientOut[r] = <<ErrorEnvelope(500)>>

CarriesOwnKey(r) ==
  /\ RoutedToProvider(r)
  /\ routeInfo[r].apiType = "gemini"
  /\ ~Falsy(headers[r].xGoogApiKey)

\* C17: for a Gemini request whose forwarded headers carry x-goog-api-key
\* (the client's header with its directives stripped), makeRequest makes
\* one upstream attempt, with that key and with no pool key, and returns
\* that attempt's response, whatever its status, or raises its transport
\* error.
C17_OwnKeyBypass ==
  \A r \in Reqs :
    CarriesOwnKey(r) =>
      /\ served[r] = <<>>
      /\ rotated[r] = <<>>
      /\ bypassSent[r] = <<cleanAuthHeader(req[r].xGoogApiKey)>>
      /\ inFlight[r] = (IF pc[r] = "bypassing" THEN 1 ELSE 0)
      /\ pc[r] \in {"bypassing", "returned", "raised", "done"}
      /\ pc[r] = "returned" => result[r] = Returned(lastOutcome[r].response)
      /\ pc[r] = "raised" => result[r] = Raised(lastOutcome[r].error)
      /\ pc[r] = "done" =>
           clientOut[r] = <<IF lastOutcome[r].kind = "response"
                            THEN lastOutcome[r].response
                            ELSE ErrorEnvelope(500)>>

C17_Witness ==
  \E r \in Reqs :
    /\ CarriesOwnKey(r)
    /\ req[r].xGoogApiKey # headers[r].xGoogApiKey
    /\ apiKeys # <<>>
    /\ rotationStatusCodes[r] = {}
    /\ customStatusCodes[r] = {500, 502, 503, 504}
    /\ pc[r] = "done"
    /\ lastOutcome[r].kind = "response"
    /\ lastOutcome[r].response.statusCode = 503
    /\ clientOut[r] = <<lastOutcome[r].response>>

\* ------------------------------------------------------ claims on routing
\* the path segments of the url, empty ones dropped
Segments(url) == FilterNonEmpty(Split(url.pathname, "/"))

\* the first path segment in lower case, NULL when the path has none
FirstSegment(url) ==
  IF Segments(url) = <<>> THEN NULL ELSE ToLowerCase(Segments(url)[1][1])

\* the url is one of the legacy aliases /gemini/... and /openai/...
IsLegacyAlias(url) ==
  \/ IsPrefix(<<"/", "gemini", "/">>, url.pathname)
  \/ IsPrefix(<<"/", "openai", "/">>, url.pathname)

\* C18: for a request url that is not one of the dispatcher's non-routes:
\* when its first path segment, case aside, names a configured provider the
\* request is routed to that provider with the upstream path "/" + the
\* remaining segments joined by "/" + the query string; otherwise, unless
\* it is a legacy alias, there is no route, the client receives the 400
\* error envelope and no upstream attempt is made.
C18_Routing ==
  \A r \in Reqs :
    (pc[r] # "idle" /\ ~IsRoot(req[r].url) /\ ~IsBrowserFile(req[r].url)) =>
      IF FirstSegment(req[r].url) \in DOMAIN providers
      THEN /\ routeInfo[r].providerName = FirstSegment(req[r].url)
           /\ routeInfo[r].provider = providers[FirstSegment(req[r].url)]
           /\ routeInfo[r].apiType = providers[FirstSegment(req[r].url)].apiType
           /\ routeInfo[r].path =
                <<"/">> \o Join(Tail(Segments(req[r].url))) \o req[r].url.search
           /\ \A i \in 1..Len(clientOut[r]) :
                clientOut[r][i] # ErrorEnvelope(400)
      ELSE IF IsLegacyAlias(req[r].url) THEN TRUE
      ELSE /\ routeInfo[r] = NoRoute
           /\ pc[r] = "done"
           /\ clientOut[r] = <<ErrorEnvelope(400)>>
           /\ ~AttemptMade(r)

C18_Witness ==
  \E r \in Reqs :
    /\ Segments(req[r].url) # <<>>
    /\ Segments(req[r].url)[1] = <<"OpenAI">>
    /\ routeInfo[r].providerName = "openai"
    /\ routeInfo[r].path = <<"/", "v1">>
    /\ Len(req[r].url.pathname) = 6
    /\ AttemptMade(r)

\* ------------------------------------------- claims on the directive parser
\* C19 as stated: parseStatusCodesFromAuth expands n=+ to n..599, n+ to
\* n+1..599, a-b to the inclusive range a..b (nothing when b < a), a single
\* integer to itself, and a non-integer term to nothing.
C19_Original ==
  \A r \in Reqs :
    pc[r] = "parsed" =>
      customStatusCodes[r] = DirectiveCodes(req[r].authorization)

\* C20 as stated: every code of the rotation set parseStatusCodesFromAuth
\* produces lies in 100..599.
C20_Original ==
  \A r \in Reqs :
    pc[r] = "parsed" => customStatusCodes[r] \subseteq 100..599

\* every term of the header's directive is open-ended: n+ or n=+
AllOpenEnded(header) ==
  /\ DirectiveTerms(header) # <<>>
  /\ \A i \in 1..Len(DirectiveTerms(header)) :
       /\ EndsWith(Trim(DirectiveTerms(header)[i]), <<"+">>)
       /\ ~Includes(DirectiveTerms(header)[i], "-")

\* C20, amended: every code an open-ended term (n+ or n=+) contributes is
\* at most 599, the bound of its iteration; no lower bound of 100 applies,
\* and single codes and range endpoints are taken as written.
C20_OpenEndedBound ==
  \A r \in Reqs :
    (pc[r] = "parsed" /\ AllOpenEnded(req[r].authorization)) =>
      \A code \in customStatusCodes[r] : code <= 599

C20_Witness ==
  \E r \in Reqs :
    /\ pc[r] = "parsed"
    /\ AllOpenEnded(req[r].authorization)
    /\ customStatusCodes[r] = 6..599

\* --------------------------------------------- claims on the header cleaner
\* C21 as stated: for every header h, cleanAuthHeader(cleanAuthHeader(h))
\* equals cleanAuthHeader(h).
C21_Original ==
  \A r \in Reqs :
    pc[r] = "recleaned" =>
      headers[r].authorization = cleanAuthHeader(req[r].authorization)

\* ------------------------------------------ claims on a context on its own
\* the number of different keys in the attempt order of r's context
DistinctKeys(r) == Cardinality(Range(ctx[r].apiKeys))

C28_AllTriedRateLimitedExactly ==
  \A r \in Reqs :
    pc[r] = "open" =>
      (allTriedKeysRateLimited(ctx[r]) <=>
         /\ served[r] # <<>>
         /\ Range(served[r]) \subseteq ctx[r].rateLimitedKeys)

\* every key of a full pool was served and marked, the last one last
C28_Witness ==
  \E r \in Reqs :
    /\ pc[r] = "open"
    /\ Len(served[r]) = MaxKeys
    /\ ctx[r].rateLimitedKeys = Range(served[r])
    /\ getLastFailedKey(ctx[r]) = served[r][MaxKeys]
    /\ allTriedKeysRateLimited(ctx[r])

\* C29: in every state of a context the rate limited keys are tried keys
\* and the tried keys are keys of the attempt order; and a call
\* markKeyAsRateLimited(k) leaves k in the rate limited set and makes
\* getLastFailedKey() return k.
C29_SetsNestAndMarkRecords ==
  /\ [](\A r \in Reqs :
          /\ ctx[r].rateLimitedKeys \subseteq ctx[r].triedKeys
          /\ ctx[r].triedKeys \subseteq Range(ctx[r].apiKeys))
  /\ [][\A r \in Reqs, k \in Keys :
          CtxMark(r, k) =>
            /\ k \in ctx'[r].rateLimitedKeys
            /\ getLastFailedKey(ctx'[r]) = k]_vars

\* two keys were served and only the first is marked
C29_Witness ==
  \E r \in Reqs :
    /\ pc[r] = "open"
    /\ Len(served[r]) = 2
    /\ Len(ctx[r].apiKeys) = MaxKeys
    /\ ctx[r].rateLimitedKeys = {served[r][1]}
    /\ getLastFailedKey(ctx[r]) = served[r][1]

\* ------------------------------------------ further claims on the loop
\* keys of r's attempt order that r has not tried
UntriedKeys(r) == Range(ctx[r].apiKeys) \ ctx[r].triedKeys

\* C30: when an attempt ends in a transport error and untried keys remain,
\* the loop attempts an untried key next, the failed key is not in the rate
\* limited set, which is as before, and the context's last failed key is as
\* before; and an attempt is followed by another one of the same request
\* only when it ended in a response of the rotation set or in a transport error.
C30_TransportErrorRotatesUnmarked ==
  [][\A r \in Reqs :
       /\ (/\ \E error \in TransportErrors : AttemptFails(r, error)
           /\ UntriedKeys(r) # {}) =>
             /\ pc'[r] = "awaiting"
             /\ apiKey'[r] \in UntriedKeys(r)
             /\ served'[r] = Append(served[r], apiKey'[r])
             /\ apiKey[r] \notin ctx'[r].rateLimitedKeys
             /\ ctx'[r].rateLimitedKeys = ctx[r].rateLimitedKeys
             /\ getLastFailedKey(ctx'[r]) = getLastFailedKey(ctx[r])
       /\ (/\ pc[r] = "awaiting"
           /\ pc'[r] = "awaiting"
           /\ served'[r] # served[r]) =>
             \/ lastOutcome'[r].kind = "error"
             \/ /\ lastOutcome'[r].kind = "response"
                /\ lastOutcome'[r].response.statusCode \in rotationStatusCodes[r]]_vars

\* a key was marked, the next attempt failed in transport and a third key
\* is being attempted: the last failed key is still the marked one
C30_Witness ==
  \E r \in Reqs :
    /\ pc[r] = "awaiting"
    /\ Len(served[r]) = 3
    /\ rotated[r] = <<served[r][1]>>
    /\ lastOutcome[r].kind = "error"
    /\ ctx[r].rateLimitedKeys = {served[r][1]}
    /\ getLastFailedKey(ctx[r]) = served[r][1]

\* C25 as stated: once the client of a request in the rotation loop has
\* disconnected, no further upstream attempt is started for that request.
C25_Original ==
  [][\A r \in Reqs :
       (pc[r] = "awaiting" /\ ~connected[r]) => served'[r] = served[r]]_vars

\* --------------------------------------------- claims on the request log
\* the requests the log holds an entry of
LoggedRequests == {logBuffer[i].requestId : i \in 1..Len(logBuffer)}

\* C26 as stated: the log never holds more than 100 entries, and each of
\* the 100 most recent proxied requests has an entry in it.
C26_Original ==
  /\ Len(logBuffer) <= 100
  /\ \A n \in 1..started : n > started - 100 => n \in LoggedRequests

\* ------------------------------------- claims on requests running together
\* the step is one of makeRequest of request r
OperatesOn(r) ==
  \/ MakeRequest(r, NullCodes)
  \/ \E response \in ConcResponses : AttemptResponds(r, response)
  \/ \E error \in ConcErrors : AttemptFails(r, error)

\* C23: with two requests interleaved on one pool, the context of a request
\* (attempt order, cursor, tried set, rate limited set) changes only in that
\* request's own steps and the pool's key list never changes; the attempt
\* order of each request is a permutation of the pool, its tried and rate
\* limited sets hold its own attempts only, and its keys run out only when
\* it has itself attempted every key of the pool.
C23_ContextsIsolated ==
  /\ [](\A r \in ConcReqs :
          pc[r] # "idle" =>
            /\ IsPermutation(ctx[r].apiKeys, apiKeys)
            /\ ctx[r].triedKeys = Range(served[r])
            /\ ctx[r].rateLimitedKeys = Range(rotated[r])
            /\ Exhausted(r) => Range(served[r]) = Range(apiKeys))
  /\ [][/\ apiKeys' = apiKeys
        /\ \A r \in ConcReqs : ctx'[r] # ctx[r] => OperatesOn(r)]_vars

\* one request has marked the first key and attempts the second while the
\* other request attempts the key the first one marked
C23_Witness ==
  \E r, q \in ConcReqs :
    /\ r # q
    /\ pc[r] = "awaiting"
    /\ Len(served[r]) = 2
    /\ rotated[r] = <<served[r][1]>>
    /\ pc[q] = "awaiting"
    /\ served[q] = <<served[r][1]>>
    /\ ctx[q].rateLimitedKeys = {}

\* the step ends makeRequest of request r
Finalizes(r) == pc[r] = "awaiting" /\ pc'[r] \in {"returned", "raised"}

\* C24 as stated: the pool's lastFailedKey changes only in the step that
\* ends a request, and whenever a request ends, lastFailedKey is from then
\* on what that request has to write, the last key it marked or null: after
\* any interleaving the value is the one of the request that ended last.
C24_Original ==
  [][/\ lastFailedKey' # lastFailedKey => \E r \in ConcReqs : Finalizes(r)
     /\ \A r \in ConcReqs :
          Finalizes(r) => lastFailedKey' = getLastFailedKey(ctx'[r])]_vars

\* ------------------------------------------------- claims on the reload
\* the step is a reload
Reloads ==
  \E config \in ReloadConfigs :
    \E legacyOpenai \in LegacyChoices(config, "openai") :
      Reload(config, NoClient, legacyOpenai)

\* request r has been routed and handed to a client
HoldsClient(r) == client[r] # NoClient

\* C22: a reload leaves the client cache empty; every cached client is
\* built from the key list and base url the configuration in force has for
\* its provider; a request routed after the latest reload has its route
\* from the configuration in force and is served by a client built from
\* it; and every request, whenever the reloads fall, is served by a client
\* built from the provider entry its own route holds, and attempts the keys
\* of that entry only.
C22_ReloadKeepsClientAndRouteTogether ==
  /\ [][Reloads => providerClients' = <<>>]_vars
  /\ [](/\ \A n \in DOMAIN providerClients :
            /\ n \in DOMAIN providers
            /\ providerClients[n] = NewClient(providers[n])
        /\ \A r \in ConcReqs :
            HoldsClient(r) =>
              /\ client[r] = NewClient(routeInfo[r].provider)
              /\ Range(served[r]) \subseteq Range(routeInfo[r].provider.keys)
              /\ IsPermutation(ctx[r].apiKeys, client[r].keys)
              /\ ~orphaned[r] =>
                   /\ routeInfo[r].providerName \in DOMAIN providers
                   /\ routeInfo[r].provider = providers[routeInfo[r].providerName]
                   /\ providerClients[routeInfo[r].providerName] = client[r])

\* a request routed before a reload attempts the second key of the old
\* list while a request routed after it attempts the key of the new list
\* on the new base url
C22_Witness ==
  \E r, q \in ConcReqs :
    /\ pc[r] = "awaiting"
    /\ orphaned[r]
    /\ Len(served[r]) = 2
    /\ client[r].baseUrl = "u1"
    /\ pc[q] = "awaiting"
    /\ ~orphaned[q]
    /\ client[q] = [apiType |-> "openai", keys |-> <<"K2">>, baseUrl |-> "u2"]
    /\ providerClients = [n \in {"openai"} |-> client[q]]

\* ------------------------------------- further claims on the exhaustion
\* C36: the response makeRequest makes up itself is never returned: when
\* the keys have run out and allTriedKeysRateLimited() is true, lastResponse
\* holds a response, and every response makeRequest returns is one an
\* upstream attempt of the request resolved with.
C36_NoSynthesizedResponse ==
  \A r \in Reqs :
    /\ (Exhausted(r) /\ allTriedKeysRateLimited(ctx[r])) =>
         /\ lastResponse[r] # NoResponse
         /\ result[r] = Returned(lastResponse[r])
    /\ pc[r] = "returned" =>
         /\ result[r].response # SyntheticResponse
         /\ lastOutcome[r] = RespOutcome(result[r].response)

\* two different keys of a pool of three places answered 503 under the
\* custom rotation set, and the second 503 is returned
C36_Witness ==
  \E r \in Reqs :
    /\ pc[r] = "returned"
    /\ Exhausted(r)
    /\ allTriedKeysRateLimited(ctx[r])
    /\ Len(apiKeys) = 3
    /\ Len(served[r]) = 2
    /\ rotationStatusCodes[r] = {503}
    /\ result[r].response.statusCode = 503

\* r's keys ran out after at least one transport error and at least one
\* rotation response
MixedExhaustion(r) ==
  /\ pc[r] \in {"returned", "raised", "done"}
  /\ ~EndedByNonRotation(r)
  /\ rotated[r] # <<>>
  /\ Len(rotated[r]) < Len(served[r])

\* C37: when the keys run out after at least one transport error and at
\* least one rotation response, makeRequest throws the transport error it
\* kept, the client receives the 500 envelope and nothing else, and no
\* rotation response is returned.
C37_MixedExhaustionRaises ==
  \A r \in Reqs :
    MixedExhaustion(r) =>
      /\ lastError[r] \in TransportErrors
      /\ result[r] = Raised(lastError[r])
      /\ pc[r] # "returned"
      /\ pc[r] = "done" => clientOut[r] = <<ErrorEnvelope(500)>>

\* the first key failed in transport, the second and third answered 429,
\* and the client has its 500
C37_Witness ==
  \E r \in Reqs :
    /\ pc[r] = "done"
    /\ MixedExhaustion(r)
    /\ Len(served[r]) = 3
    /\ rotated[r] = <<served[r][2], served[r][3]>>
    /\ lastOutcome[r].kind = "response"
    /\ result[r] = Raised("e1")
    /\ clientOut[r] = <<ErrorEnvelope(500)>>

\* ------------------------------------------------ claims on termination
\* the terminal outcomes of makeRequest
Success(r) == pc[r] = "returned" /\ EndedByNonRotation(r)
RateLimitedAllKeys(r) ==
  /\ pc[r] = "returned"
  /\ ~EndedByNonRotation(r)
  /\ served[r] # <<>>
  /\ Range(rotated[r]) = Range(served[r])
NetworkFailure(r) ==
  /\ pc[r] = "raised"
  /\ served[r] # <<>>
  /\ result[r].error \in TransportErrors
EmptyPool(r) ==
  /\ pc[r] = "raised"
  /\ apiKeys = <<>>
  /\ served[r] = <<>>
  /\ result[r] = Raised(ExhaustedError)

OutcomesOf(r) ==
  {o \in {"Success", "RateLimitedAllKeys", "NetworkFailure", "EmptyPool"} :
     \/ o = "Success" /\ Success(r)
     \/ o = "RateLimitedAllKeys" /\ RateLimitedAllKeys(r)
     \/ o = "NetworkFailure" /\ NetworkFailure(r)
     \/ o = "EmptyPool" /\ EmptyPool(r)}

\* C34: when every upstream attempt settles, a request that awaits an
\* attempt reaches the end of makeRequest; a request makes no more attempts
\* than the pool has keys; and makeRequest ends in exactly one of Success,
\* RateLimitedAllKeys, NetworkFailure and EmptyPool.
C34_ExactlyOneTerminalOutcome ==
  /\ \A r \in Reqs : pc[r] = "awaiting" ~> pc[r] \in {"returned", "raised"}
  /\ [](\A r \in Reqs :
          /\ Len(served[r]) <= Len(apiKeys)
          /\ pc[r] \in {"returned", "raised"} => Cardinality(OutcomesOf(r)) = 1)

\* a request over three keys ended in NetworkFailure after three attempts
C34_Witness ==
  \E r \in Reqs :
    /\ NetworkFailure(r)
    /\ Len(served[r]) = MaxKeys
    /\ rotated[r] # <<>>
    /\ OutcomesOf(r) = {"NetworkFailure"}

\* --------------------------------- claims on the gate before the own key
\* r is a Gemini request to a provider that declares an access key; its
\* x-goog-api-key carries a key of the client's own once the directives are
\* stripped, and no ACCESS_KEY directive with the provider's key
OwnKeyWithoutAccess(r) ==
  /\ RoutedToProvider(r)
  /\ routeInfo[r].apiType = "gemini"
  /\ ~Falsy(routeInfo[r].provider.accessKey)
  /\ ~Falsy(req[r].xGoogApiKey)
  /\ ~Falsy(cleanAuthHeader(req[r].xGoogApiKey))
  /\ parseAccessKeyFromAuth(req[r].xGoogApiKey) # routeInfo[r].provider.accessKey

\* C38: a Gemini request that supplies its own upstream key in
\* x-goog-api-key to a provider that declares an access key, without the
\* matching ACCESS_KEY directive in that header, is answered 401; neither
\* the attempt with the client's key nor any attempt with a pool key is made.
C38_OwnKeyStillGated ==
  \A r \in Reqs :
    OwnKeyWithoutAccess(r) =>
      /\ Denied(r)
      /\ bypassSent[r] = <<>>
      /\ served[r] = <<>>
      /\ headers[r] = NoHeaders
      /\ client[r] = NoClient

C38_Witness ==
  \E r \in Reqs :
    /\ OwnKeyWithoutAccess(r)
    /\ cleanAuthHeader(req[r].xGoogApiKey) = <<"sk">>
    /\ parseAccessKeyFromAuth(req[r].xGoogApiKey) = <<"s2">>
    /\ routeInfo[r].provider.accessKey = <<"s1">>
    /\ Denied(r)

\* ----------------------------------- claims on the pool beside the own key
\* C39: in every step of a Gemini request whose forwarded headers carry the
\* client's own key, the pool's key list and its lastFailedKey keep their
\* values, the request has no request context and no pool key has been
\* chosen or sent for it, whatever response or transport error the attempt
\* with the client's key ends in.
C39_BypassLeavesPool ==
  [][\A r \in Reqs :
       CarriesOwnKey(r)' =>
         /\ lastFailedKey' = lastFailedKey
         /\ apiKeys' = apiKeys
         /\ ctx'[r] = NoContext
         /\ apiKey'[r] = NULL
         /\ served'[r] = <<>>
         /\ rotated'[r] = <<>>]_vars

C39_Witness ==
  \E r \in Reqs :
    /\ CarriesOwnKey(r)
    /\ pc[r] = "done"
    /\ bypassSent[r] = <<headers[r].xGoogApiKey>>
    /\ lastFailedKey # NULL
    /\ lastOutcome[r].kind = "response"
    /\ lastOutcome[r].response.statusCode = 429
    /\ ctx[r] = NoContext

\* ------------------------------- claims on the credential sent to OpenAI
\* r is served by an OpenAI client
ServedByOpenAI(r) ==
  pc[r] # "idle" /\ routeInfo[r] # NoRoute /\ client[r].apiType = "openai"

\* the Authorization headers of the attempts made for r so far, in order
SentAuthorization(r) ==
  [i \in 1..Len(served[r]) |-> AttemptAuthorization(headers[r], served[r][i])]

\* the client's Authorization header with the directives stripped
Stripped(header) ==
  Trim(RemoveMatches(RemoveMatches(header, TokStatusCodes), TokAccessKey))

\* the statement with "Bearer" as the only remainder that is dropped
C31_Original ==
  \A r \in Reqs :
    ServedByOpenAI(r) =>
      \A i \in 1..Len(served[r]) :
        /\ SentAuthorization(r)[i] = <<TokBearer, Space, served[r][i]>>
             <=> Falsy(headers[r].authorization)
        /\ Falsy(headers[r].authorization)
             <=> \/ req[r].authorization = Absent
                 \/ Stripped(req[r].authorization) = <<TokBearer>>
        /\ ~Falsy(headers[r].authorization) =>
             SentAuthorization(r)[i] = Stripped(req[r].authorization)

\* C31: in OpenAI flavor an upstream attempt carries Authorization: Bearer
\* and the pool key chosen for that attempt exactly when the forwarded
\* headers carry no authorization header, which is the case when the client
\* sent no Authorization header or its header reduces to "Bearer" or to the
\* empty string after directive stripping; when the cleaned client header
\* is anything else, every attempt of the request carries that cleaned
\* header unchanged instead of a pool key.
C31_AuthorizationSent ==
  \A r \in Reqs :
    ServedByOpenAI(r) =>
      \A i \in 1..Len(served[r]) :
        /\ SentAuthorization(r)[i] = <<TokBearer, Space, served[r][i]>>
             <=> Falsy(headers[r].authorization)
        /\ Falsy(headers[r].authorization)
             <=> \/ req[r].authorization = Absent
                 \/ Stripped(req[r].authorization) = <<TokBearer>>
                 \/ Stripped(req[r].authorization) = <<>>
        /\ ~Falsy(headers[r].authorization) =>
             SentAuthorization(r)[i] = Stripped(req[r].authorization)

C31_Witness ==
  \E r \in Reqs :
    /\ ServedByOpenAI(r)
    /\ Len(served[r]) = 2
    /\ served[r][1] # served[r][2]
    /\ req[r].authorization # Absent
    /\ Stripped(req[r].authorization) = <<>>
    /\ SentAuthorization(r) =
         <<<<TokBearer, Space, served[r][1]>>, <<TokBearer, Space, served[r][2]>>>>

\* ------------------------------------------- claims on the header filter
\* C32: the names of the headers handed to the upstream client are, case
\* aside, names of the flavor's whitelist, plus the flavor's credential
\* header when the cleaned credential header is non-null; every whitelisted
\* header handed on has the client's name and value, the credential header
\* has the cleaned value, and no other header of the client (cookie,
\* x-forwarded-for, the other flavor's credential and whitelist) is among
\* them.
C32_HeaderWhitelist ==
  \A r \in Reqs :
    pc[r] = "forwarded" =>
      LET apiType == req[r].apiType
          sent == req[r].headers
          auth == AuthHeaderName(apiType)
          cleanedAuth == cleanAuthHeader(HeaderValue(sent, auth))
          whitelist == IF apiType = "openai"
                       THEN {"content-type", "accept", "user-agent",
                             "openai-organization", "openai-project"}
                       ELSE {"content-type", "accept", "user-agent",
                             "x-goog-user-project"}
      IN /\ {HeaderLower(n) : n \in DOMAIN headers[r]}
              \subseteq whitelist \cup (IF cleanedAuth # Absent THEN {auth} ELSE {})
         /\ \A n \in DOMAIN headers[r] :
              IF n = auth THEN headers[r][n] = cleanedAuth
              ELSE n \in DOMAIN sent /\ headers[r][n] = sent[n]
         /\ \A n \in DOMAIN sent :
              HeaderLower(n) \notin whitelist \cup {auth} => n \notin DOMAIN headers[r]

C32_Witness ==
  \E r \in Reqs :
    /\ pc[r] = "forwarded"
    /\ req[r].apiType = "gemini"
    /\ DOMAIN req[r].headers =
         {"Accept", "Cookie", "x-forwarded-for", "openai-project",
          "x-goog-user-project", "authorization", "x-goog-api-key"}
    /\ req[r].headers["x-goog-api-key"] = <<TokBearer, Space, TokAccessKey, "s1", TokClose>>
    /\ DOMAIN headers[r] = {"Accept", "x-goog-user-project"}

\* ----------------------------------- claims on lastFailedKey and reloads
\* request r takes a step of its own
StepOf(r) == pc'[r] # pc[r]

\* C35: the lastFailedKey of the pool in use is null or a key of that
\* pool's key list; the key a request's context holds for
\* updateLastFailedKey is null or a key of the pool of the client the
\* request holds, which is the pool it is written to; and no step of a
\* request whose client a reload has dropped changes the lastFailedKey of
\* the pool created after the reload.
C35_LastFailedKeyOfOwnPool ==
  /\ [](/\ lastFailedKey \in {NULL} \cup Range(apiKeys)
        /\ \A r \in ConcReqs :
             HoldsClient(r) =>
               getLastFailedKey(ctx[r]) \in {NULL} \cup Range(client[r].keys))
  /\ [][\A r \in ConcReqs :
          (orphaned[r] /\ StepOf(r)) => lastFailedKey' = lastFailedKey]_vars

\* a request routed before a reload has run out of the old pool's keys
\* with K1 as its failed key, while the pool created after the reload
\* holds K2 alone and has K2 as its lastFailedKey
C35_Witness ==
  \E r \in ConcReqs :
    /\ orphaned[r]
    /\ pc[r] \in {"returned", "raised", "done"}
    /\ Len(served[r]) = 2
    /\ getLastFailedKey(ctx[r]) = "K1"
    /\ apiKeys = <<"K2">>
    /\ lastFailedKey = "K2"

\* ------------------------------------------- claims on the legacy aliases
\* handleRequest takes up a request r on a legacy alias while the
\* configuration in force has no provider of the alias's name
AliasRequestArrives(r) ==
  /\ pc[r] = "idle"
  /\ pc'[r] # "idle"
  /\ IsLegacyAlias(req'[r].url)
  /\ FirstSegment(req'[r].url) \notin DOMAIN providers

\* C33: in every configuration reached through startup and reloads, a
\* request whose path begins with /gemini/ or /openai/ while no provider of
\* that name is configured is routed to the built-in alias of that name and
\* proxied through the legacy client: an upstream attempt is made for it.
C33_Original ==
  [][\A r \in ConcReqs :
       AliasRequestArrives(r) =>
         /\ routeInfo'[r] # NoRoute
         /\ routeInfo'[r].legacy
         /\ routeInfo'[r].providerName = FirstSegment(req'[r].url)
         /\ routeInfo'[r].apiType = FirstSegment(req'[r].url)
         /\ AttemptMade(r)']_vars

\* what the code does with such a request: it takes the alias route, finds
\* no legacy client, because one is built only from the keys that also
\* configure the provider of that name, and answers 503 without an attempt
AliasNeverServed ==
  /\ [](/\ openaiClient # NoClient => "openai" \in DOMAIN providers
        /\ geminiClient # NoClient => "gemini" \in DOMAIN providers)
  /\ [][\A r \in ConcReqs :
          AliasRequestArrives(r) =>
            /\ routeInfo'[r] # NoRoute
            /\ routeInfo'[r].legacy
            /\ routeInfo'[r].providerName = FirstSegment(req'[r].url)
            /\ pc'[r] = "done"
            /\ clientOut'[r] = <<ErrorEnvelope(UnavailableStatus)>>
            /\ ~AttemptMade(r)']_vars

\* ------------------------------------------- claims on the admin session
\* the Cookie header of the request holds a cookie adminSession=token
HasSessionCookie(request, token) ==
  \E i \in 1..Len(request.cookie) : request.cookie[i] = <<"adminSession", token>>

\* handleAdminRequest runs a protected handler for request r
ExecutesProtected(r) ==
  pc[r] = "idle" /\ pc'[r] = "done" /\ adminOp'[r] # NULL

\* handleAdminRequest takes up the request r with this path
AdminStep(r, path) ==
  pc[r] = "idle" /\ pc'[r] = "done" /\ req'[r].path = path /\ req'[r].method = "POST"

\* C40: whatever logins, logouts and admin requests came before, a
\* protected admin handler (reading or updating the environment, testing a
\* key, reading logs or a stored response) runs only for a request that
\* carries a cookie adminSession equal to the session token of that moment,
\* which is not null; the token is null at the start and after every
\* logout, and only a login with the right password while logins are not
\* blocked sets a token.
C40_ProtectedOnlyWithSession ==
  /\ [][\A r \in Reqs :
          /\ ExecutesProtected(r) =>
               /\ adminSessionToken # NULL
               /\ adminSessionToken \in SessionTokens
               /\ HasSessionCookie(req'[r], adminSessionToken)
               /\ adminSessionToken' = adminSessionToken
          /\ AdminStep(r, "/admin/logout") => adminSessionToken' = NULL
          /\ (adminSessionToken' # adminSessionToken /\ adminSessionToken' # NULL) =>
               /\ AdminStep(r, "/admin/login")
               /\ req'[r].body = [json |-> TRUE, password |-> AdminPassword]
               /\ ~LoginBlocked
               /\ adminSessionToken' \in SessionTokens]_vars
  /\ [][adminSessionToken = NULL =>
          \A r \in Reqs : ~ExecutesProtected(r)]_vars

\* after a login that followed failed logins and a block, the environment
\* is updated for a request whose Cookie header names the session twice,
\* the current token last
C40_Witness ==
  \E r \in Reqs :
    /\ pc[r] = "done"
    /\ adminOp[r] = "handleUpdateEnvVars"
    /\ adminSessionToken = "t2"
    /\ req[r].cookie = <<<<"adminSession", "t1">>, <<"adminSession", "t2">>>>
    /\ failedLoginAttempts = 0
    /\ now = MaxTime

====
